---- MODULE Spec2Model ----
(***************************************************************************)
(* The repository state engine of xgit (src/src/git): branch lifecycle,    *)
(* commit creation, the merge engine and remote synchronisation, modelled  *)
(* over an abstract object/reference store.                                *)
(*                                                                         *)
(* A repository is a commit store (a sequence; a commit's OID is its       *)
(* position), the local branch references, HEAD, the staging index with    *)
(* its conflict entries, the working tree, the merge-in-progress marker    *)
(* (MERGE_HEAD), the remote-tracking references and the remote's own       *)
(* branches.  Each GitRepo method is an operator from a repository record  *)
(* to the record after the call and the call's result; each action applies *)
(* one method to the current state.                                        *)
(***************************************************************************)
EXTENDS Integers, Sequences, FiniteSets, TLC

VARIABLES commits,    \* the object store: Seq of [parents, tree, message]
          refs,       \* refs/heads/<name> -> OID, NoOid when absent
          head,       \* HEAD: symbolic (a branch name) or detached (an OID)
          index,      \* staging area: path -> content (stage 0 entries)
          conflicts,  \* paths with conflict entries in the index
          workdir,    \* working tree: path -> content
          mergeHead,  \* MERGE_HEAD: OID being merged, NoOid when no merge is in progress
          tracking,   \* refs/remotes/origin/<name> -> OID
          remote,     \* the remote repository's refs/heads/<name> -> OID
          bare,       \* repository has no working tree
          config,     \* the identity keys that are set (user.name, user.email)
          calls       \* the calls in flight: what each has read so far

vars == <<commits, refs, head, index, conflicts, workdir, mergeHead, tracking,
          remote, bare, config, calls>>

-----------------------------------------------------------------------------
(* Bounds of the model *)

\* The object store holds at most this many commits.
MaxCommits == 4

\* Branch names and file paths the calls are made with, and the versions a
\* file is written in.
Names == {"master", "feature"}
Paths == {"a"}
Contents == {"x", "y"}

\* The branches somebody else pushes to on the remote.
RemoteBranches == {"master"}

\* Every branch name a reference can exist under: the names above and the
\* main-line names the branch manager and the prune command look for.
Branches == Names \cup {"main", "develop"}

\* A path that is not in a tree / not on disk.
Absent == "absent"
\* A file written with conflict markers by a conflicted merge.
Markers == "markers"

\* No object: an unresolvable reference, an Option::None OID.
NoOid == 0

\* Option<&str>::None for a branch argument and for a message argument
\* (messages are tuples of words).
NoBranch == "none"
NoMessage == <<>>

\* The remotes configured in the repository, and the names calls are made with.
Remotes == {"origin"}
RemoteNames == {"origin", "upstream"}

\* Where a call into the store can fail for reasons outside the repository
\* state (a lock held by another process, a disk or network error).
IoFailures == {"none", "reference", "checkout", "set_head", "merge", "commit",
               "cleanup", "transfer"}

EmptyTree == [p \in Paths |-> Absent]

Max(S) == CHOOSE x \in S : \A y \in S : y <= x

-----------------------------------------------------------------------------
(* The repository record the operations work on *)

Cur == [commits |-> commits, refs |-> refs, head |-> head, index |-> index,
        conflicts |-> conflicts, workdir |-> workdir, mergeHead |-> mergeHead,
        tracking |-> tracking, remote |-> remote, bare |-> bare,
        config |-> config]

Symbolic(name) == [sym |-> TRUE, name |-> name, oid |-> NoOid]
Detached(oid) == [sym |-> FALSE, name |-> "", oid |-> oid]

Ok(r, msg, oid) ==
    [repo |-> r, res |-> [ok |-> TRUE, msg |-> msg, cause |-> "", oid |-> oid]]
Err(r, msg, cause) ==
    [repo |-> r, res |-> [ok |-> FALSE, msg |-> msg, cause |-> cause, oid |-> NoOid]]

\* repo.head(): the commit HEAD resolves to; NoOid when HEAD is unborn.
HeadOid(r) == IF r.head.sym THEN r.refs[r.head.name] ELSE r.head.oid

TreeOf(r, c) == IF c = NoOid THEN EmptyTree ELSE r.commits[c].tree

\* All commits reachable from c through parent links, c included.
RECURSIVE Ancestors(_, _)
Ancestors(cs, c) ==
    IF c = NoOid THEN {}
    ELSE {c} \cup UNION {Ancestors(cs, cs[c].parents[i]) : i \in 1..Len(cs[c].parents)}

\* The common ancestors of a and b that are ancestors of no other common ancestor.
BestCommonAncestors(cs, a, b) ==
    LET common == Ancestors(cs, a) \cap Ancestors(cs, b)
    IN {c \in common : \A d \in common : d = c \/ c \notin Ancestors(cs, d)}

\* Faulty merge bases: the oldest common ancestor instead of a best one; the
\* first commit of the store when the histories share nothing.
merge_base_oldest(cs, a, b) ==
    LET common == Ancestors(cs, a) \cap Ancestors(cs, b)
    IN IF common = {} THEN NoOid ELSE CHOOSE c \in common : \A d \in common : c <= d

merge_base_or_first(cs, a, b) ==
    LET best == BestCommonAncestors(cs, a, b)
    IN IF best = {} THEN 1 ELSE Max(best)

\* A faulty merge base that always answers the first commit, so that every
\* merge looks like a fast-forward.
merge_base_ours(cs, a, b) == a

\* repo.merge_base(a, b): a best common ancestor (the newest when there are
\* several), NoOid when the histories are unrelated.
merge_base(cs, a, b) ==
    LET best == BestCommonAncestors(cs, a, b)
    IN IF best = {} THEN NoOid ELSE Max(best)

\* A faulty signature that is made without the configured identity.
create_signature_unchecked(r) == "ok"

\* create_signature(): "ok", or the context of the config read that failed.
create_signature(r) ==
    IF "user.name" \notin r.config THEN
        "Failed to get user.name from git config. Run: git config user.name \"Your Name\""
    ELSE IF "user.email" \notin r.config THEN
        "Failed to get user.email from git config. Run: git config user.email \"your@email.com\""
    ELSE "ok"

\* A faulty current branch, read from the resolved HEAD: nothing while the
\* branch is unborn.
get_current_branch_resolved(r) ==
    IF r.head.sym /\ r.refs[r.head.name] # NoOid THEN r.head.name ELSE NoBranch

\* get_current_branch(): the branch HEAD names, NoBranch when HEAD is not symbolic.
get_current_branch(r) == IF r.head.sym THEN r.head.name ELSE NoBranch

-----------------------------------------------------------------------------
(* Working-tree checkout (repo.checkout_tree) *)

\* Safe checkout refuses to touch a path that differs between the baseline
\* (HEAD's tree) and the target when the file on disk is neither the baseline
\* version nor, for a tracked path, already the target version.
CheckoutConflict(b, t, w) == b # t /\ w # b /\ ~(w = t /\ b # Absent)

\* A faulty safe checkout that reports success without writing.
checkout_tree_safe_skipped(r, target) == [ok |-> TRUE, repo |-> r]

\* checkout_tree(target, None): the default, safe strategy.  Fails without
\* writing when the index holds unresolved conflicts or a path conflicts;
\* otherwise only the paths that differ between HEAD's tree and the target
\* are rewritten, so local edits to other paths are carried over.
checkout_tree_safe(r, target) ==
    LET base == TreeOf(r, HeadOid(r))
        bad == {p \in Paths : CheckoutConflict(base[p], target[p], r.workdir[p])}
    IN IF r.conflicts # {} \/ bad # {}
       THEN [ok |-> FALSE, repo |-> r]
       ELSE [ok |-> TRUE,
             repo |-> [r EXCEPT
                 !.workdir = [p \in Paths |->
                     IF base[p] # target[p] THEN target[p] ELSE r.workdir[p]],
                 !.index = [p \in Paths |->
                     IF base[p] # target[p] THEN target[p] ELSE r.index[p]]]]

\* A path the forced checkout rewrites or removes.
ForceTouched(r, target, p) ==
    IF target[p] # Absent
    THEN r.workdir[p] # target[p] \/ TreeOf(r, HeadOid(r))[p] # target[p]
    ELSE \/ TreeOf(r, HeadOid(r))[p] # Absent
         \/ r.workdir[p] # Absent /\ (r.index[p] # Absent \/ p \in r.conflicts)

\* A faulty forced checkout that writes nothing.
checkout_tree_force_skipped(r, target) == r

\* checkout_tree(target, force): every path of the target is written as in
\* the target; a path outside the target is removed when it is tracked (in
\* HEAD's tree or in the index) and left alone when it is untracked.
checkout_tree_force(r, target) ==
    [r EXCEPT
        !.workdir = [p \in Paths |->
            IF ForceTouched(r, target, p) THEN target[p] ELSE r.workdir[p]],
        !.index = [p \in Paths |->
            IF ForceTouched(r, target, p) THEN target[p] ELSE r.index[p]],
        !.conflicts = {p \in r.conflicts : ~ForceTouched(r, target, p)}]

-----------------------------------------------------------------------------
(* Three-way merge (repo.merge_analysis, repo.merge) *)

\* The merge of one path: base b, ours o, theirs t; Markers for a conflict.
MergeFile(b, o, t) ==
    IF o = t THEN o ELSE IF o = b THEN t ELSE IF t = b THEN o ELSE Markers

\* A faulty conflict detection that sees none.
NoConflictPaths(B, O, T) == {}

\* The paths both sides changed, differently (index.has_conflicts()).
ConflictPaths(B, O, T) ==
    {p \in Paths : O[p] # T[p] /\ O[p] # B[p] /\ T[p] # B[p]}

\* What a conflicted path looks like on disk: the surviving side of a
\* modify/delete conflict, a file with conflict markers otherwise.
ConflictFile(o, t) == IF o = Absent THEN t ELSE IF t = Absent THEN o ELSE Markers

\* Faulty merge analyses: one that offers a fast-forward for every commit
\* HEAD does not contain, one that finds every related commit merged.
merge_analysis_fast_forward(r, their) ==
    IF HeadOid(r) # NoOid /\ their \in Ancestors(r.commits, HeadOid(r))
    THEN "up_to_date" ELSE "fast_forward"
merge_analysis_related(r, their) ==
    IF HeadOid(r) = NoOid THEN "fast_forward"
    ELSE IF merge_base(r.commits, HeadOid(r), their) # NoOid THEN "up_to_date"
    ELSE "normal"

\* repo.merge_analysis(their): relative to HEAD.
merge_analysis(r, their) ==
    LET our == HeadOid(r)
        mb == merge_base(r.commits, our, their)
    IN IF our = NoOid THEN "fast_forward"
       ELSE IF mb # NoOid /\ mb = their THEN "up_to_date"
       ELSE IF mb # NoOid /\ mb = our THEN "fast_forward"
       ELSE "normal"

\* repo.merge(their, merge_options, safe checkout), entered with the index
\* holding HEAD's tree (index.read_tree(head_tree)).  Fails in a bare
\* repository, on an I/O failure, when a tracked file the merge would rewrite
\* has local changes, or when an untracked file is in the way; a failing
\* merge writes no file and removes the merge state.  Otherwise the index and
\* the working tree receive the merge result, conflicts included, and
\* MERGE_HEAD is written.
git_merge(r, their, io) ==
    LET our == HeadOid(r)
        B == TreeOf(r, merge_base(r.commits, our, their))
        O == TreeOf(r, our)
        T == TreeOf(r, their)
        cp == ConflictPaths(B, O, T)
        merged == [p \in Paths |-> MergeFile(B[p], O[p], T[p])]
        changed == cp \cup {p \in Paths : merged[p] # O[p]}
        dirty == {p \in changed : O[p] # Absent /\ r.workdir[p] # O[p]}
        blocked == {p \in changed : O[p] = Absent /\ r.workdir[p] # Absent}
    IN IF r.bare \/ io = "merge" \/ dirty # {} \/ blocked # {}
       THEN [ok |-> FALSE, repo |-> [r EXCEPT !.mergeHead = NoOid]]
       ELSE [ok |-> TRUE,
             repo |-> [r EXCEPT
                 !.index = [p \in Paths |-> IF p \in cp THEN Absent ELSE merged[p]],
                 !.conflicts = cp,
                 !.workdir = [p \in Paths |->
                     IF p \in cp THEN ConflictFile(O[p], T[p])
                     ELSE IF p \in changed THEN merged[p]
                     ELSE r.workdir[p]],
                 !.mergeHead = their]]

\* repo.commit(Some("HEAD"), .., tree, parents): a new commit object; the
\* reference HEAD resolves through (the current branch, born by this if it
\* was unborn; HEAD itself when detached) is moved to it.
NewOid(r) == Len(r.commits) + 1

\* A faulty commit that records the first parent only.
git_commit_first_parent(r, tree, parents, message) ==
    LET c == [parents |-> IF Len(parents) > 1 THEN <<parents[1]>> ELSE parents,
              tree |-> tree, message |-> message]
        r1 == [r EXCEPT !.commits = Append(r.commits, c)]
    IN IF r.head.sym
       THEN [r1 EXCEPT !.refs[r.head.name] = NewOid(r)]
       ELSE [r1 EXCEPT !.head = Detached(NewOid(r))]

git_commit(r, tree, parents, message) ==
    LET c == [parents |-> parents, tree |-> tree, message |-> message]
        r1 == [r EXCEPT !.commits = Append(r.commits, c)]
    IN IF r.head.sym
       THEN [r1 EXCEPT !.refs[r.head.name] = NewOid(r)]
       ELSE [r1 EXCEPT !.head = Detached(NewOid(r))]

\* A faulty reference update that moves every existing branch along.
reference_all(r, name, oid) ==
    [r EXCEPT !.refs = [n \in Branches |->
                           IF n = name \/ r.refs[n] # NoOid THEN oid ELSE r.refs[n]]]

\* A faulty reference update that writes nothing.
reference_dropped(r, name, oid) == r

\* repo.reference("refs/heads/<name>", oid, force = true, ..)
reference(r, name, oid) == [r EXCEPT !.refs[name] = oid]

\* A faulty cleanup that leaves MERGE_HEAD behind.
cleanup_state_skipped(r) == r

\* repo.cleanup_state(): the merge state files are removed.
cleanup_state(r) == [r EXCEPT !.mergeHead = NoOid]

-----------------------------------------------------------------------------
(* Merge engine (git/merge/operations.rs) *)

DefaultMergeMessage(branch_name) == <<"Merge branch", branch_name>>

\* merge(), the fast-forward arm: the current branch reference is moved to
\* the target, then the working tree is force-checked-out unless bare.
merge_fast_forward(r, T, io) ==
    IF get_current_branch(r) = NoBranch
    THEN Err(r, "Failed to get current branch", "")
    ELSE IF io = "reference"
    THEN Err(r, "Failed to update branch reference", "")
    ELSE LET r1 == reference(r, get_current_branch(r), T)
         IN IF r.bare THEN Ok(r1, "Fast-forward merge", T)
            ELSE IF io = "checkout"
            THEN Err(r1, "Failed to checkout target tree", "")
            ELSE Ok(checkout_tree_force(r1, TreeOf(r1, T)), "Fast-forward merge", T)

\* merge(), the true-merge arm: HEAD's tree is read into the index, the merge
\* analysis is consulted once more, and a normal merge is performed,
\* checked for conflicts, committed with parents [H, T] and cleaned up.
merge_three_way(r, H, T, branch_name, message, io) ==
    LET r0 == [r EXCEPT !.index = TreeOf(r, H), !.conflicts = {}]
        analysis == merge_analysis(r, T)
        m == git_merge(r0, T, io)
        commit_message ==
            IF message = NoMessage THEN DefaultMergeMessage(branch_name) ELSE message
        r3 == git_commit(m.repo, m.repo.index, <<H, T>>, commit_message)
    IN IF analysis = "up_to_date" THEN Ok(r, "Already up-to-date", NoOid)
       ELSE IF analysis = "fast_forward"
       THEN IF io = "set_head" THEN Err(r, "Failed to fast-forward merge", "")
            ELSE Ok([r EXCEPT !.head = Detached(T)], "Fast-forward merge", T)
       ELSE IF ~m.ok
       THEN Err([r EXCEPT !.mergeHead = m.repo.mergeHead], "Failed to perform merge", "")
       ELSE IF m.repo.conflicts # {}
       THEN Err(m.repo, "Merge conflicts detected", "")
       ELSE IF io = "commit" THEN Err(m.repo, "Failed to create merge commit", "")
       ELSE IF io = "cleanup" THEN Err(r3, "Failed to cleanup merge state", "")
       ELSE Ok(cleanup_state(r3), "Merge commit created", NewOid(r))

\* A faulty merge that asks for the identity only where it authors a commit.
merge_identity_late(r, branch_name, message, io) ==
    LET T == r.refs[branch_name]
        H == HeadOid(r)
        mb == merge_base(r.commits, H, T)
    IN IF T = NoOid THEN Err(r, "Failed to find branch", "")
       ELSE IF H = NoOid THEN Err(r, "Failed to get HEAD", "")
       ELSE IF H = T THEN Ok(r, "Already up-to-date", NoOid)
       ELSE IF mb = NoOid THEN Err(r, "Failed to find merge base", "")
       ELSE IF mb = H THEN merge_fast_forward(r, T, io)
       ELSE IF mb = T THEN Ok(r, "Already up-to-date", NoOid)
       ELSE IF create_signature(r) # "ok"
       THEN Err(r, "Failed to create signature", create_signature(r))
       ELSE merge_three_way(r, H, T, branch_name, message, io)

\* GitRepo::merge(branch_name, message)
merge(r, branch_name, message, io) ==
    LET sig == create_signature(r)
        T == r.refs[branch_name]
        H == HeadOid(r)
        mb == merge_base(r.commits, H, T)
    IN IF sig # "ok" THEN Err(r, "Failed to create signature", sig)
       ELSE IF T = NoOid THEN Err(r, "Failed to find branch", "")
       ELSE IF H = NoOid THEN Err(r, "Failed to get HEAD", "")
       ELSE IF H = T THEN Ok(r, "Already up-to-date", NoOid)
       ELSE IF mb = NoOid THEN Err(r, "Failed to find merge base", "")
       ELSE IF mb = H THEN merge_fast_forward(r, T, io)
       ELSE IF mb = T THEN Ok(r, "Already up-to-date", NoOid)
       ELSE merge_three_way(r, H, T, branch_name, message, io)

-----------------------------------------------------------------------------
(* Remote sync (git/remotes/sync.rs, git/remotes/operations.rs) *)

\* A faulty fetch whose refspec writes the local branch as well.
fetch_into_branch(r, remote_name, branch, io) ==
    IF remote_name \notin Remotes THEN Err(r, "Remote not found", "")
    ELSE IF io = "transfer" THEN Err(r, "Failed to fetch from remote", "")
    ELSE IF r.remote[branch] = NoOid \/ r.remote[branch] = r.tracking[branch]
    THEN Ok(r, "Already up-to-date", NoOid)
    ELSE Ok([r EXCEPT !.tracking[branch] = r.remote[branch],
                      !.refs[branch] = r.remote[branch]], "Fetched objects", NoOid)

\* GitRepo::fetch(remote_name, Some(branch)): the remote's branch is copied
\* to refs/remotes/<remote>/<branch>; a branch the remote does not have
\* matches nothing and fetches nothing.
fetch(r, remote_name, branch, io) ==
    IF remote_name \notin Remotes THEN Err(r, "Remote not found", "")
    ELSE IF io = "transfer" THEN Err(r, "Failed to fetch from remote", "")
    ELSE IF r.remote[branch] = NoOid \/ r.remote[branch] = r.tracking[branch]
    THEN Ok(r, "Already up-to-date", NoOid)
    ELSE Ok([r EXCEPT !.tracking[branch] = r.remote[branch]], "Fetched objects", NoOid)

PullMergeMessage(remote_name, target_branch) ==
    <<"Merge branch", remote_name, target_branch, "into", target_branch>>

\* A faulty fast-forward pull that moves the branch and leaves the files.
pull_fast_forward_unchecked(r, R, io) ==
    IF get_current_branch(r) = NoBranch
    THEN Err(r, "Failed to get current branch", "")
    ELSE IF io = "reference"
    THEN Err(r, "Failed to update branch reference", "")
    ELSE Ok(reference(r, get_current_branch(r), R), "Fast-forward pull", R)

\* pull(), the fast-forward arm.
pull_fast_forward(r, R, io) ==
    IF get_current_branch(r) = NoBranch
    THEN Err(r, "Failed to get current branch", "")
    ELSE IF io = "reference"
    THEN Err(r, "Failed to update branch reference", "")
    ELSE LET r1 == reference(r, get_current_branch(r), R)
         IN IF r.bare THEN Ok(r1, "Fast-forward pull", R)
            ELSE IF io = "checkout"
            THEN Err(r1, "Failed to checkout remote tree", "")
            ELSE Ok(checkout_tree_force(r1, TreeOf(r1, R)), "Fast-forward pull", R)

\* pull(), the merge arm: the signature is created here, not on entry.
pull_three_way(r, H, R, remote_name, target_branch, io) ==
    LET sig == create_signature(r)
        r0 == [r EXCEPT !.index = TreeOf(r, H), !.conflicts = {}]
        analysis == merge_analysis(r, R)
        m == git_merge(r0, R, io)
        r3 == git_commit(m.repo, m.repo.index, <<H, R>>,
                         PullMergeMessage(remote_name, target_branch))
    IN IF sig # "ok" THEN Err(r, "Failed to create signature", sig)
       ELSE IF analysis = "up_to_date" THEN Ok(r, "Already up-to-date", NoOid)
       ELSE IF analysis = "fast_forward"
       THEN IF io = "reference" THEN Err(r, "Failed to fast-forward pull", "")
            ELSE Ok(reference(r, target_branch, R), "Fast-forward pull", R)
       ELSE IF ~m.ok
       THEN Err([r EXCEPT !.mergeHead = m.repo.mergeHead], "Failed to perform merge", "")
       ELSE IF m.repo.conflicts # {}
       THEN Err(m.repo, "Merge conflicts detected during pull", "")
       ELSE IF io = "commit" THEN Err(m.repo, "Failed to create merge commit", "")
       ELSE IF io = "cleanup" THEN Err(r3, "Failed to cleanup merge state", "")
       ELSE Ok(cleanup_state(r3), "Pull merge commit created", NewOid(r))

\* GitRepo::pull(remote_name, branch_name)
pull(r, remote_name, branch_name, io) ==
    LET target_branch ==
            IF branch_name = NoBranch THEN get_current_branch(r) ELSE branch_name
        f == fetch(r, remote_name, target_branch, io)
        rf == f.repo
        R == rf.tracking[target_branch]
        H == HeadOid(rf)
        mb == merge_base(rf.commits, H, R)
    IN IF target_branch = NoBranch THEN Err(r, "Failed to get current branch", "")
       ELSE IF ~f.res.ok THEN Err(r, "Failed to fetch from remote", f.res.msg)
       ELSE IF R = NoOid THEN Err(rf, "Remote branch not found after fetch", "")
       ELSE IF H = NoOid THEN Err(rf, "Failed to get HEAD", "")
       ELSE IF H = R THEN Ok(rf, "Already up-to-date", NoOid)
       ELSE IF mb = NoOid THEN Err(rf, "Failed to find merge base", "")
       ELSE IF mb = H THEN pull_fast_forward(rf, R, io)
       ELSE IF mb = R THEN Ok(rf, "Already up-to-date", NoOid)
       ELSE pull_three_way(rf, H, R, remote_name, target_branch, io)

\* A faulty push that sends every local branch.
push_every_branch(r, remote_name, branch_name, io) ==
    LET loid == r.refs[branch_name]
        roid == r.remote[branch_name]
        sent == [n \in Branches |-> IF r.refs[n] # NoOid THEN r.refs[n] ELSE r.remote[n]]
    IN IF remote_name \notin Remotes THEN Err(r, "Failed to find remote", "")
       ELSE IF loid = NoOid \/ io = "transfer"
            \/ (roid # NoOid /\ roid \notin Ancestors(r.commits, loid))
       THEN Err(r, "Failed to push branch", "")
       ELSE Ok([r EXCEPT !.remote = sent, !.tracking[branch_name] = loid], "", NoOid)

\* GitRepo::push(remote_name, branch_name): refs/heads/<b>:refs/heads/<b>,
\* not forced, so the remote's branch must be an ancestor of the local one;
\* the remote-tracking reference follows the pushed branch.
push(r, remote_name, branch_name, io) ==
    LET loid == r.refs[branch_name]
        roid == r.remote[branch_name]
    IN IF remote_name \notin Remotes THEN Err(r, "Failed to find remote", "")
       ELSE IF loid = NoOid \/ io = "transfer"
            \/ (roid # NoOid /\ roid \notin Ancestors(r.commits, loid))
       THEN Err(r, "Failed to push branch", "")
       ELSE Ok([r EXCEPT !.remote[branch_name] = loid,
                         !.tracking[branch_name] = loid], "", NoOid)

\* GitRepo::push_current_branch(remote_name): the branch is read from HEAD's
\* symbolic target; a HEAD that is not symbolic fails before any push.
push_current_branch(r, remote_name, io) ==
    IF get_current_branch(r) = NoBranch
    THEN Err(r, "Failed to get current branch from HEAD", "")
    ELSE push(r, remote_name, get_current_branch(r), io)

-----------------------------------------------------------------------------
(* Branch manager (git/branches/operations.rs) *)

\* Faulty branch creations: one that creates the branch and leaves HEAD
\* where it was; one that overwrites a branch that exists.
create_and_checkout_branch_no_switch(r, branch_name, io) ==
    IF HeadOid(r) = NoOid THEN Ok(r, "", NoOid)
    ELSE IF r.refs[branch_name] # NoOid THEN Err(r, "Failed to create branch", "")
    ELSE Ok([r EXCEPT !.refs[branch_name] = HeadOid(r)], "", NoOid)

create_and_checkout_branch_forced(r, branch_name, io) ==
    IF HeadOid(r) = NoOid THEN Ok([r EXCEPT !.head = Symbolic(branch_name)], "", NoOid)
    ELSE Ok([r EXCEPT !.refs[branch_name] = HeadOid(r),
                      !.head = Symbolic(branch_name)], "", NoOid)

\* GitRepo::create_and_checkout_branch(branch_name)
create_and_checkout_branch(r, branch_name, io) ==
    LET target_commit == HeadOid(r)
        r1 == [r EXCEPT !.refs[branch_name] = target_commit]
    IN IF target_commit # NoOid
       THEN IF r.refs[branch_name] # NoOid \/ io = "reference"
            THEN Err(r, "Failed to create branch", "")
            ELSE IF io = "set_head"
            THEN Err(r1, "Failed to set HEAD to new branch", "")
            ELSE Ok([r1 EXCEPT !.head = Symbolic(branch_name)], "", NoOid)
       ELSE IF io = "set_head"
            THEN Err(r, "Failed to set HEAD to new branch", "")
            ELSE Ok([r EXCEPT !.head = Symbolic(branch_name)], "", NoOid)

\* GitRepo::checkout_branch(branch_name)
checkout_branch(r, branch_name, io) ==
    LET obj == r.refs[branch_name]
        co == checkout_tree_safe(r, TreeOf(r, obj))
        r1 == IF r.bare THEN r ELSE co.repo
    IN IF obj = NoOid THEN Err(r, "revspec not found", "")
       ELSE IF ~r.bare /\ (io = "checkout" \/ ~co.ok)
       THEN Err(r, "checkout failed", "")
       ELSE IF io = "set_head" THEN Err(r1, "set_head failed", "")
       ELSE Ok([r1 EXCEPT !.head = Symbolic(branch_name)], "", NoOid)

\* A faulty deletion that applies the prune command's policy itself.
delete_branch_guarded(r, branch_name, io) ==
    IF r.refs[branch_name] = NoOid THEN Err(r, "Failed to find branch", "")
    ELSE IF (r.head.sym /\ r.head.name = branch_name)
            \/ branch_name \in {"main", "master", "develop"}
    THEN Err(r, "Failed to delete branch", "")
    ELSE Ok([r EXCEPT !.refs[branch_name] = NoOid], "", NoOid)

\* A faulty delete that does not spare the branch HEAD names.
delete_branch_unguarded(r, branch_name, io) ==
    IF r.refs[branch_name] = NoOid THEN Err(r, "Failed to find branch", "")
    ELSE Ok([r EXCEPT !.refs[branch_name] = NoOid], "", NoOid)

\* GitRepo::delete_branch(branch_name): Branch::delete refuses the branch
\* HEAD currently names.
delete_branch(r, branch_name, io) ==
    IF r.refs[branch_name] = NoOid THEN Err(r, "Failed to find branch", "")
    ELSE IF (r.head.sym /\ r.head.name = branch_name) \/ io = "reference"
    THEN Err(r, "Failed to delete branch", "")
    ELSE Ok([r EXCEPT !.refs[branch_name] = NoOid], "", NoOid)

\* get_all_branches(): the local branches, in reference-name order.
BranchOrder == <<"develop", "feature", "main", "master">>
get_all_branches(r) ==
    SelectSeq(BranchOrder, LAMBDA n : n \in Branches /\ r.refs[n] # NoOid)

\* The answer of a query: Ok(value) or Err(msg).
Answer(value) == [ok |-> TRUE, value |-> value, msg |-> ""]
Failure(msg) == [ok |-> FALSE, value |-> FALSE, msg |-> msg]

\* The commit times a store of n commits can hold: every commit is stamped by
\* the clock of the machine that made it, so a commit can be older than its
\* parent; no two commits are made within the same second.
Clocks(n) == {when \in [1..n -> 1..n] : \A i, j \in 1..n : when[i] = when[j] => i = j}

\* A faulty walk sorted by time alone.
RECURSIVE revwalk_by_time(_, _, _, _)
revwalk_by_time(cs, when, todo, out) ==
    IF todo = {} THEN out
    ELSE LET next == CHOOSE c \in todo : \A d \in todo : when[d] <= when[c]
         IN revwalk_by_time(cs, when, todo \ {next}, Append(out, next))

\* The revwalk under Sort::TOPOLOGICAL | Sort::TIME over the commits todo:
\* the commits none of whose children is still to come wait in a queue
\* ordered by commit time, and the newest of them comes next.
RECURSIVE revwalk(_, _, _, _)
revwalk(cs, when, todo, out) ==
    IF todo = {} THEN out
    ELSE LET ready == {c \in todo : \A d \in todo \ {c} : c \notin Ancestors(cs, d)}
             next == CHOOSE c \in ready : \A d \in ready : when[d] <= when[c]
         IN revwalk(cs, when, todo \ {next}, Append(out, next))

\* list_commits(): the CommitInfo of every commit the walk pushed from HEAD
\* yields, the empty list when repo.head() fails; when holds the commit
\* time of every commit in the store.
list_commits(r, when) ==
    IF HeadOid(r) = NoOid THEN Answer(<<>>)
    ELSE LET walk == revwalk(r.commits, when, Ancestors(r.commits, HeadOid(r)), <<>>)
         IN Answer([i \in 1..Len(walk) |->
                       [hash |-> walk[i], message |-> r.commits[walk[i]].message]])

\* Texts a caller can pass for a branch that are no branch names but
\* revision expressions: the first parent of a branch's tip.
Revisions == {"master~1", "feature~1"}
RevisionBranch(spec) == IF spec = "master~1" THEN "master" ELSE "feature"

\* repo.find_reference("refs/heads/<name>"): the reference of that very name;
\* a text that is no reference name finds nothing.
find_reference(r, name) == IF name \in Branches THEN r.refs[name] ELSE NoOid

\* repo.revparse_single("refs/heads/<spec>") peeled to a commit: the text is
\* parsed as a revision, so after a branch name "~1" steps to the first
\* parent of the tip; NoOid when the branch or the parent does not exist.
revparse_single(r, spec) ==
    IF spec \in Branches THEN r.refs[spec]
    ELSE LET tip == r.refs[RevisionBranch(spec)]
         IN IF tip = NoOid \/ r.commits[tip].parents = <<>> THEN NoOid
            ELSE r.commits[tip].parents[1]

\* Faulty main-line lookups: master before main; the branch HEAD names.
main_ref_master_first(r) ==
    IF r.refs["master"] # NoOid THEN r.refs["master"] ELSE r.refs["main"]

\* find_reference("refs/heads/main").or_else(find_reference("refs/heads/master")):
\* the tip of the main line, NoOid when neither branch exists.
main_ref(r) ==
    IF r.refs["main"] # NoOid THEN r.refs["main"] ELSE r.refs["master"]

\* A faulty merged test, turned around: the main line is contained in the
\* branch.
is_branch_merged_to_main_reversed(r, branch_name) ==
    IF r.refs[branch_name] = NoOid THEN Failure("Failed to find branch reference")
    ELSE IF main_ref(r) = NoOid THEN Failure("Failed to find main/master branch")
    ELSE IF merge_base(r.commits, r.refs[branch_name], main_ref(r)) = NoOid
    THEN Failure("Failed to find merge base")
    ELSE Answer(merge_base(r.commits, r.refs[branch_name], main_ref(r)) = main_ref(r))

\* A faulty merged test: the branch shares history with the main line.
is_branch_merged_to_main_related(r, branch_name) ==
    LET branch_oid == r.refs[branch_name]
        main_oid == main_ref(r)
    IN IF branch_oid = NoOid THEN Failure("Failed to find branch reference")
       ELSE IF main_oid = NoOid THEN Failure("Failed to find main/master branch")
       ELSE Answer(merge_base(r.commits, branch_oid, main_oid) # NoOid)

\* GitRepo::is_branch_merged_to_main(branch_name): the merge base of the
\* branch tip and the main-line tip is the branch tip.
is_branch_merged_to_main(r, branch_name) ==
    LET branch_oid == find_reference(r, branch_name)
        main_oid == main_ref(r)
        base == merge_base(r.commits, branch_oid, main_oid)
    IN IF branch_oid = NoOid THEN Failure("Failed to find branch reference")
       ELSE IF main_oid = NoOid THEN Failure("Failed to find main/master branch")
       ELSE IF base = NoOid THEN Failure("Failed to find merge base")
       ELSE Answer(base = branch_oid)

\* GitRepo::is_branch_merged_into_main(branch): the main line is looked up
\* first (main, else master), then the branch by revparse_single; the merge
\* base of the two tips is the branch tip.
is_branch_merged_into_main(r, branch) ==
    LET main_branch ==
            IF r.refs["main"] # NoOid THEN "main"
            ELSE IF r.refs["master"] # NoOid THEN "master" ELSE NoBranch
        branch_commit == revparse_single(r, branch)
    IN IF main_branch = NoBranch THEN Failure("Neither main nor master branch found")
       ELSE IF branch_commit = NoOid THEN Failure("Failed to find branch")
       ELSE IF merge_base(r.commits, branch_commit, r.refs[main_branch]) = NoOid
       THEN Failure("Failed to find merge base")
       ELSE Answer(merge_base(r.commits, branch_commit, r.refs[main_branch])
                       = branch_commit)

-----------------------------------------------------------------------------
(* Branch pruning (commands/branch_prune.rs) *)

\* Branches the prune command never deletes.
protected_branches == {"main", "master", "develop"}

\* A faulty selection that protects nothing.
find_branches_to_prune_unprotected(r) ==
    LET current_branch == get_current_branch(r)
        merged(n) == is_branch_merged_to_main(r, n)
    IN SelectSeq(get_all_branches(r),
                 LAMBDA n : n # current_branch /\ merged(n).ok /\ merged(n).value)

\* find_branches_to_prune(repo): every branch that is not the current one,
\* not protected, and reported merged; a branch whose merge status cannot
\* be determined is skipped with a warning.
find_branches_to_prune(r) ==
    LET current_branch == get_current_branch(r)
        merged(n) == is_branch_merged_to_main(r, n)
    IN SelectSeq(get_all_branches(r),
                 LAMBDA n : /\ n # current_branch
                            /\ n \notin protected_branches
                            /\ merged(n).ok /\ merged(n).value)

\* prune_branches(repo, branches_to_prune): each branch is deleted in turn; a
\* failed deletion is counted and the loop goes on.
RECURSIVE prune_branches(_, _)
prune_branches(r, branches_to_prune) ==
    IF branches_to_prune = <<>> THEN r
    ELSE prune_branches(delete_branch(r, Head(branches_to_prune), "none").repo,
                        Tail(branches_to_prune))

\* prune_merged_branches(dry_run): fails before anything is selected when HEAD
\* names no branch; a dry run only lists the selection.
prune_merged_branches(r, dry_run) ==
    LET branches_to_prune == find_branches_to_prune(r)
    IN IF get_current_branch(r) = NoBranch
       THEN Err(r, "Failed to get current branch from HEAD", "")
       ELSE IF branches_to_prune = <<>> THEN Ok(r, "No merged branches found to prune", NoOid)
       ELSE IF dry_run THEN Ok(r, "would be deleted", NoOid)
       ELSE Ok(prune_branches(r, branches_to_prune), "Deleted", NoOid)

-----------------------------------------------------------------------------
(* Staging and commits (git/commits/operations.rs) *)

\* GitRepo::add(&[path]): the file on disk (or its absence) is staged and the
\* path's conflict entries are dropped; a bare repository has nothing to add.
add(r, path) ==
    IF r.bare THEN Err(r, "Failed to add files to index", "")
    ELSE Ok([r EXCEPT !.index[path] = r.workdir[path],
                      !.conflicts = r.conflicts \ {path}], "", NoOid)

\* A faulty staged-changes test that looks at the index alone.
has_staged_changes_any(r) == Answer(r.index # EmptyTree \/ r.conflicts # {})

\* GitRepo::has_staged_changes(): while repo.head() fails, whether the index
\* has an entry; otherwise whether the tree written from the index (refused
\* while it holds conflicts) differs from HEAD's tree.
has_staged_changes(r) ==
    IF HeadOid(r) = NoOid THEN Answer(r.index # EmptyTree \/ r.conflicts # {})
    ELSE IF r.conflicts # {} THEN Failure("Failed to write index tree")
    ELSE Answer(r.index # TreeOf(r, HeadOid(r)))

\* A faulty commit that never records a parent.
commit_orphan(r, message, io) ==
    IF create_signature(r) # "ok"
    THEN Err(r, "Failed to create signature", create_signature(r))
    ELSE IF r.conflicts # {} THEN Err(r, "Failed to write tree from index", "")
    ELSE IF io = "commit" THEN Err(r, "Failed to create commit", "")
    ELSE Ok(git_commit(r, r.index, <<>>, message), "", NewOid(r))

\* GitRepo::commit(message): the index is written as a tree (refused while
\* it holds conflicts) and committed on top of HEAD's commit, if any.
commit(r, message, io) ==
    LET sig == create_signature(r)
        H == HeadOid(r)
        parents == IF H = NoOid THEN <<>> ELSE <<H>>
    IN IF sig # "ok" THEN Err(r, "Failed to create signature", sig)
       ELSE IF r.conflicts # {} THEN Err(r, "Failed to write tree from index", "")
       ELSE IF io = "commit" THEN Err(r, "Failed to create commit", "")
       ELSE Ok(git_commit(r, r.index, parents, message), "", NewOid(r))

-----------------------------------------------------------------------------
(* Commit message suggestion (ai.rs) *)

\* diff_staged(): the staged changes as text, one entry per path whose index
\* entry differs from HEAD's tree (from the empty tree while HEAD is unborn);
\* empty when nothing is staged.
PathOrder == <<"a">>
diff_staged(r) ==
    LET base == TreeOf(r, HeadOid(r))
    IN SelectSeq([i \in 1..Len(PathOrder) |->
                     [path |-> PathOrder[i], old |-> base[PathOrder[i]],
                      new |-> r.index[PathOrder[i]]]],
                 LAMBDA line : line.old # line.new)

\* The longest message the generator is taken to print.
MaxMessage == 3

\* What the external generator can do: not start; or exit, with success or
\* not, having printed text that is not JSON, a JSON value that is no object,
\* an object without result, an object whose result is no string, or an
\* object whose result is a string of blanks and letters.
Texts == UNION {[1..n -> {" ", "m"}] : n \in 0..MaxMessage}
Stdouts ==
    {[kind |-> k, result |-> <<>>] :
        k \in {"not json", "not object", "no result", "result not string"}}
    \cup {[kind |-> "result", result |-> t] : t \in Texts}
Processes ==
    {[spawned |-> FALSE, success |-> FALSE, stdout |-> [kind |-> "not json", result |-> <<>>]]}
    \cup [spawned : {TRUE}, success : BOOLEAN, stdout : Stdouts]

\* str::trim(): leading and trailing blanks removed.
RECURSIVE trim_start(_)
trim_start(t) == IF t # <<>> /\ Head(t) = " " THEN trim_start(Tail(t)) ELSE t
RECURSIVE trim_end(_)
trim_end(t) ==
    IF t # <<>> /\ t[Len(t)] = " " THEN trim_end(SubSeq(t, 1, Len(t) - 1)) ELSE t
trim(t) == trim_end(trim_start(t))

\* Ok(None) and Ok(Some(message)); started tells whether the external
\* process was launched.
NoSuggestion(started) == [ok |-> TRUE, some |-> FALSE, message |-> <<>>, started |-> started]
Suggestion(message) == [ok |-> TRUE, some |-> TRUE, message |-> message, started |-> TRUE]

\* A faulty generator that takes whatever a successful process printed.
generate_commit_message_unparsed(diff_text, process) ==
    IF diff_text = <<>> THEN NoSuggestion(FALSE)
    ELSE IF process.spawned /\ process.success
    THEN Suggestion(process.stdout.result)
    ELSE NoSuggestion(TRUE)

\* generate_commit_message(diff_text), with process what the launched
\* generator does.
generate_commit_message(diff_text, process) ==
    IF diff_text = <<>> THEN NoSuggestion(FALSE)
    ELSE IF process.spawned /\ process.success
    THEN IF process.stdout.kind = "result" /\ trim(process.stdout.result) # <<>>
         THEN Suggestion(trim(process.stdout.result))
         ELSE NoSuggestion(TRUE)
    ELSE NoSuggestion(TRUE)

-----------------------------------------------------------------------------
(* The state machine *)

UserMessage == <<"work">>
CustomMergeMessage == <<"custom">>

\* A repository just created by GitRepo::init / init_bare: no objects, no
\* references, HEAD symbolic on the unborn branch master.
FreshRepo(isBare, cfg) ==
    [commits |-> <<>>, refs |-> [n \in Branches |-> NoOid], head |-> Symbolic("master"),
     index |-> EmptyTree, conflicts |-> {}, workdir |-> EmptyTree,
     mergeHead |-> NoOid, tracking |-> [n \in Branches |-> NoOid],
     remote |-> [n \in Branches |-> NoOid], bare |-> isBare, config |-> cfg]

\* A path on disk that holds no repository.
NoRepository == [exists |-> FALSE]

\* A faulty init that initialises over whatever is there.
init_over(disk, cfg, io) == Ok(FreshRepo(FALSE, cfg), "", NoOid)

\* GitRepo::init(path), on what the path holds (a repository record or
\* NoRepository) and the identity configuration of the machine: refused when
\* Repository::open succeeds; otherwise Repository::init, then HEAD is set to
\* refs/heads/master.  A failing set_head leaves the repository the store
\* initialised.
init(disk, cfg, io) ==
    IF disk # NoRepository THEN Err(disk, "Directory is already a git repository", "")
    ELSE IF io = "reference" THEN Err(disk, "Failed to initialize git repository", "")
    ELSE IF io = "set_head" THEN Err(FreshRepo(FALSE, cfg), "Failed to set HEAD to master", "")
    ELSE Ok(FreshRepo(FALSE, cfg), "", NoOid)

\* GitRepo::init_bare(path): the same with a repository without working tree.
init_bare(disk, cfg, io) ==
    IF disk # NoRepository THEN Err(disk, "Directory is already a git repository", "")
    ELSE IF io = "reference"
    THEN Err(disk, "Failed to initialize bare git repository", "")
    ELSE IF io = "set_head" THEN Err(FreshRepo(TRUE, cfg), "Failed to set HEAD to master", "")
    ELSE Ok(FreshRepo(TRUE, cfg), "", NoOid)

\* A repository found on disk by GitRepo::open whose two branches were
\* started independently: two root commits, master checked out.
OpenedRepo ==
    [FreshRepo(FALSE, {"user.name", "user.email"}) EXCEPT
        !.commits = <<[parents |-> <<>>, tree |-> [EmptyTree EXCEPT !["a"] = "x"],
                       message |-> UserMessage],
                      [parents |-> <<>>, tree |-> [EmptyTree EXCEPT !["a"] = "y"],
                       message |-> UserMessage]>>,
        !.refs = [n \in Branches |-> IF n = "master" THEN 1
                                       ELSE IF n = "feature" THEN 2 ELSE NoOid],
        !.index = [EmptyTree EXCEPT !["a"] = "x"],
        !.workdir = [EmptyTree EXCEPT !["a"] = "x"]]

\* A repository found on disk with one commit on master and HEAD left on a
\* branch that has no commit yet (git checkout --orphan feature): the index
\* and the files are still those of master.
OrphanRepo ==
    [FreshRepo(FALSE, {"user.name", "user.email"}) EXCEPT
        !.commits = <<[parents |-> <<>>, tree |-> [EmptyTree EXCEPT !["a"] = "x"],
                       message |-> UserMessage]>>,
        !.refs["master"] = 1,
        !.head = Symbolic("feature"),
        !.index = [EmptyTree EXCEPT !["a"] = "x"],
        !.workdir = [EmptyTree EXCEPT !["a"] = "x"]]

\* A repository found on disk with HEAD detached at master's commit.
DetachedRepo == [OrphanRepo EXCEPT !.head = Detached(1)]

\* The identity configurations a session starts with.
Configs == {{"user.name", "user.email"}, {"user.name"}, {"user.email"}}

\* The failures that interrupt a call after it has written something; a
\* failure before the first write leaves the repository as it was.
BranchFailures == {"none", "set_head"}
MergeFailures == {"none", "checkout", "commit", "cleanup"}

\* The processes that call into the same repository at the same time, and
\* a call that is not running.  A running call holds the commits it resolved
\* (H: HEAD's, T: the target's) and the tree it wrote; a finished call holds
\* its result, the branch it wrote and the commit it made or moved the
\* branch to.
Callers == {"commit", "merge", "pull"}
Idle == [pc |-> "idle", H |-> NoOid, T |-> NoOid, tree |-> EmptyTree,
         branch |-> NoBranch, made |-> NoOid]

\* The state after out, the outcome of one call, is installed.
InstallRepo(r) ==
    /\ Len(r.commits) <= MaxCommits
    /\ commits' = r.commits
    /\ refs' = r.refs
    /\ head' = r.head
    /\ index' = r.index
    /\ conflicts' = r.conflicts
    /\ workdir' = r.workdir
    /\ mergeHead' = r.mergeHead
    /\ tracking' = r.tracking
    /\ remote' = r.remote
    /\ bare' = r.bare
    /\ config' = r.config

Install(out) == InstallRepo(out.repo) /\ UNCHANGED calls

\* The variables hold the repository r.
Holds(r) ==
    /\ commits = r.commits
    /\ refs = r.refs
    /\ head = r.head
    /\ index = r.index
    /\ conflicts = r.conflicts
    /\ workdir = r.workdir
    /\ mergeHead = r.mergeHead
    /\ tracking = r.tracking
    /\ remote = r.remote
    /\ bare = r.bare
    /\ config = r.config
    /\ calls = [c \in Callers |-> Idle]

Init ==
    \/ \E isBare \in BOOLEAN, cfg \in Configs : Holds(FreshRepo(isBare, cfg))
    \/ Holds(OpenedRepo)

CreateAndCheckoutBranch ==
    \E n \in Names, io \in BranchFailures :
        Install(create_and_checkout_branch(Cur, n, io))

CheckoutBranch ==
    \E n \in Names, io \in BranchFailures :
        Install(checkout_branch(Cur, n, io))

DeleteBranch ==
    \E n \in Names : Install(delete_branch(Cur, n, "none"))

\* The user writes a file and stages it (add_file, then GitRepo::add).
AddFile ==
    \E p \in Paths, c \in Contents :
        Install(add([Cur EXCEPT !.workdir[p] = c], p))

\* The user commits what is staged, or makes the initial commit.
Commit ==
    /\ index # TreeOf(Cur, HeadOid(Cur)) \/ HeadOid(Cur) = NoOid
    /\ Install(commit(Cur, UserMessage, "none"))

Merge ==
    \E n \in Names, m \in {NoMessage, CustomMergeMessage}, io \in MergeFailures :
        Install(merge(Cur, n, m, io))

Fetch ==
    \E n \in RemoteBranches : Install(fetch(Cur, "origin", n, "none"))

Pull ==
    \E n \in RemoteBranches \cup {NoBranch}, io \in MergeFailures :
        Install(pull(Cur, "origin", n, io))

Push ==
    \E n \in RemoteBranches : Install(push(Cur, "origin", n, "none"))

\* Somebody else pushes a new commit to a branch of the remote, once the
\* repository has seen what the branch held before.
RemoteAdvance ==
    \E n \in RemoteBranches, p \in Paths, c \in Contents :
        LET parent == remote[n]
            c0 == [parents |-> IF parent = NoOid THEN <<>> ELSE <<parent>>,
                   tree |-> [TreeOf(Cur, parent) EXCEPT ![p] = c],
                   message |-> UserMessage]
        IN /\ Len(commits) < MaxCommits
           /\ remote[n] = tracking[n]
           /\ TreeOf(Cur, parent)[p] # c
           /\ commits' = Append(commits, c0)
           /\ remote' = [remote EXCEPT ![n] = Len(commits) + 1]
           /\ UNCHANGED <<refs, head, index, conflicts, workdir, mergeHead, tracking,
                          bare, config, calls>>

Next ==
    \/ CreateAndCheckoutBranch
    \/ CheckoutBranch
    \/ DeleteBranch
    \/ AddFile
    \/ Commit
    \/ Merge
    \/ Fetch
    \/ Pull
    \/ Push
    \/ RemoteAdvance

Spec == Init /\ [][Next]_vars

\* The repository without a remote: the branch manager, commits and merge.
LocalNext ==
    \/ CreateAndCheckoutBranch
    \/ CheckoutBranch
    \/ DeleteBranch
    \/ AddFile
    \/ Commit
    \/ Merge

LocalSpec == Init /\ [][LocalNext]_vars

\* A repository found on disk as a clone of the remote leaves it: one commit,
\* master checked out and tracking origin/master; the identity may never have
\* been configured on this machine.
ClonedRepo(cfg) ==
    [FreshRepo(FALSE, cfg) EXCEPT
        !.commits = <<[parents |-> <<>>, tree |-> [EmptyTree EXCEPT !["a"] = "x"],
                       message |-> UserMessage]>>,
        !.refs["master"] = 1,
        !.tracking["master"] = 1,
        !.remote["master"] = 1,
        !.index = [EmptyTree EXCEPT !["a"] = "x"],
        !.workdir = [EmptyTree EXCEPT !["a"] = "x"]]

\* A clone whose master holds a commit made with an identity given outside
\* the repository's configuration (commit 2), while the remote's master has
\* moved on to commit 3 without a fetch since.
WorkedClone(cfg) ==
    LET edited == [EmptyTree EXCEPT !["a"] = "y"]
    IN [ClonedRepo(cfg) EXCEPT
           !.commits = @ \o <<[parents |-> <<1>>, tree |-> edited, message |-> UserMessage],
                              [parents |-> <<1>>, tree |-> edited, message |-> UserMessage]>>,
           !.refs["master"] = 2,
           !.remote["master"] = 3,
           !.index = edited,
           !.workdir = edited]

\* A session in a clone: local work and the remote operations.
ClonedInit ==
    \/ \E cfg \in Configs \cup {{}} : Holds(ClonedRepo(cfg))
    \/ \E cfg \in {{}, {"user.name"}, {"user.email"}} : Holds(WorkedClone(cfg))
    \/ Holds([ClonedRepo({"user.name", "user.email"}) EXCEPT !.head = Detached(1)])

PushCurrentBranch ==
    \E io \in {"none", "transfer"} : Install(push_current_branch(Cur, "origin", io))

ClonedNext ==
    \/ CreateAndCheckoutBranch
    \/ CheckoutBranch
    \/ AddFile
    \/ Commit
    \/ Merge
    \/ Fetch
    \/ Pull
    \/ Push
    \/ PushCurrentBranch
    \/ RemoteAdvance

ClonedSpec == ClonedInit /\ [][ClonedNext]_vars

\* A bare repository found on disk, as a server holds it: both branches were
\* pushed to it and have diverged from the first commit, each changing the
\* file a in the same way.
OpenedBareRepo ==
    [FreshRepo(TRUE, {"user.name", "user.email"}) EXCEPT
        !.commits = <<[parents |-> <<>>, tree |-> [EmptyTree EXCEPT !["a"] = "x"],
                       message |-> UserMessage],
                      [parents |-> <<1>>, tree |-> [EmptyTree EXCEPT !["a"] = "y"],
                       message |-> UserMessage],
                      [parents |-> <<1>>, tree |-> [EmptyTree EXCEPT !["a"] = "y"],
                       message |-> UserMessage]>>,
        !.refs["master"] = 2,
        !.refs["feature"] = 3]

\* A session in a bare repository.
BareInit ==
    \/ \E cfg \in Configs : Holds(FreshRepo(TRUE, cfg))
    \/ Holds(OpenedBareRepo)

BareSpec == BareInit /\ [][Next]_vars

\* Calls made at the same time by several processes on one repository: a
\* call is a sequence of reads and writes of the store, and the steps of
\* different calls interleave.  commit() resolves its parent, then creates
\* the commit through HEAD; merge() and pull() resolve HEAD's commit and the
\* target and compare them with their merge base, then, on the
\* fast-forward arm followed here, write the branch reference and the files.

\* commit(), lines 58-87: the signature, the tree written from the index,
\* the parent read from HEAD.
BeginCommit ==
    /\ calls["commit"].pc = "idle"
    /\ create_signature(Cur) = "ok" /\ conflicts = {}
    /\ index # TreeOf(Cur, HeadOid(Cur))
    /\ calls' = [calls EXCEPT !["commit"] =
                    [Idle EXCEPT !.pc = "read", !.H = HeadOid(Cur), !.tree = index]]
    /\ InstallRepo(Cur)

\* commit(), lines 91-102: repo.commit(Some("HEAD"), ..) refuses to create
\* the commit when the tip of HEAD's branch is not the first parent it was
\* given (no tip for a root commit), and moves the branch otherwise.
FinishCommit ==
    LET c == calls["commit"]
        parents == IF c.H = NoOid THEN <<>> ELSE <<c.H>>
    IN /\ c.pc = "read"
       /\ IF HeadOid(Cur) # c.H
          THEN /\ calls' = [calls EXCEPT !["commit"].pc = "failed"]
               /\ InstallRepo(Cur)
          ELSE /\ calls' = [calls EXCEPT !["commit"].pc = "ok",
                                         !["commit"].branch = get_current_branch(Cur),
                                         !["commit"].made = NewOid(Cur)]
               /\ InstallRepo(git_commit(Cur, c.tree, parents, UserMessage))

\* merge(), lines 8-39: the call resolves the target T and HEAD's commit H
\* and finds H to be their merge base.
BeginMerge ==
    \E b \in Names :
        LET H == HeadOid(Cur)
            T == refs[b]
        IN /\ calls["merge"].pc = "idle"
           /\ create_signature(Cur) = "ok"
           /\ H # NoOid /\ T # NoOid /\ H # T
           /\ merge_base(commits, H, T) = H
           /\ calls' = [calls EXCEPT !["merge"] =
                           [Idle EXCEPT !.pc = "read", !.H = H, !.T = T]]
           /\ InstallRepo(Cur)

\* merge(), lines 40-69: the fast-forward arm with the T resolved before.
FinishMerge ==
    LET c == calls["merge"]
        out == merge_fast_forward(Cur, c.T, "none")
    IN /\ c.pc = "read"
       /\ calls' = [calls EXCEPT !["merge"].pc = IF out.res.ok THEN "ok" ELSE "failed",
                                 !["merge"].branch = get_current_branch(Cur),
                                 !["merge"].made = c.T]
       /\ InstallRepo(out.repo)

\* pull(), lines 60-96: the fetch, then the remote commit R and HEAD's
\* commit H are resolved and H is found to be their merge base.
BeginPull ==
    \E b \in RemoteBranches :
        LET fetched == fetch(Cur, "origin", b, "none").repo
            H == HeadOid(fetched)
            R == fetched.tracking[b]
        IN /\ calls["pull"].pc = "idle"
           /\ H # NoOid /\ R # NoOid /\ H # R
           /\ merge_base(commits, H, R) = H
           /\ calls' = [calls EXCEPT !["pull"] =
                           [Idle EXCEPT !.pc = "read", !.H = H, !.T = R]]
           /\ InstallRepo(fetched)

\* pull(), lines 97-130: the fast-forward arm with the R resolved before.
FinishPull ==
    LET c == calls["pull"]
        out == pull_fast_forward(Cur, c.T, "none")
    IN /\ c.pc = "read"
       /\ calls' = [calls EXCEPT !["pull"].pc = IF out.res.ok THEN "ok" ELSE "failed",
                                !["pull"].branch = get_current_branch(Cur),
                                !["pull"].made = c.T]
       /\ InstallRepo(out.repo)

\* A finished call returns to its caller.
Return ==
    \E c \in Callers :
        /\ calls[c].pc \in {"ok", "failed"}
        /\ calls' = [calls EXCEPT ![c] = Idle]
        /\ InstallRepo(Cur)

ConcurrentInit == Holds(ClonedRepo({"user.name", "user.email"}))

ConcurrentNext ==
    \/ CreateAndCheckoutBranch
    \/ CheckoutBranch
    \/ AddFile
    \/ Commit
    \/ RemoteAdvance
    \/ BeginCommit
    \/ FinishCommit
    \/ BeginMerge
    \/ FinishMerge
    \/ BeginPull
    \/ FinishPull
    \/ Return

ConcurrentSpec == ConcurrentInit /\ [][ConcurrentNext]_vars

\* add_file_and_commit(filename, content, message): write, stage, commit.
add_file_and_commit(r, filename, content, commit_message) ==
    LET staged == add([r EXCEPT !.workdir[filename] = content], filename)
    IN IF staged.res.ok THEN commit(staged.repo, commit_message, "none") ELSE staged

\* A session of branch work around the main line: branches are started and
\* switched under every name, work is committed file by file, branches are
\* merged and the merged ones pruned.
MainLineInit ==
    \/ Holds(FreshRepo(FALSE, {"user.name", "user.email"}))
    \/ Holds(OpenedRepo)
    \/ Holds(OrphanRepo)
    \/ Holds(DetachedRepo)

StartBranch ==
    \E n \in Branches : Install(create_and_checkout_branch(Cur, n, "none"))

SwitchBranch ==
    \E n \in Branches : Install(checkout_branch(Cur, n, "none"))

AddFileAndCommit ==
    \E p \in Paths, c \in Contents :
        /\ TreeOf(Cur, HeadOid(Cur))[p] # c
        /\ Install(add_file_and_commit(Cur, p, c, UserMessage))

MergeBranch ==
    \E n \in Branches : Install(merge(Cur, n, NoMessage, "none"))

PruneMergedBranches ==
    \E dry_run \in BOOLEAN : Install(prune_merged_branches(Cur, dry_run))

MainLineNext ==
    \/ StartBranch
    \/ SwitchBranch
    \/ AddFileAndCommit
    \/ MergeBranch
    \/ PruneMergedBranches

MainLineSpec == MainLineInit /\ [][MainLineNext]_vars

-----------------------------------------------------------------------------
(* Properties of GitRepo::merge *)

Messages == {NoMessage, CustomMergeMessage}

\* The relation of HEAD's commit H to the tip T of branch b, read off the
\* commit graph.
Resolves(b) == refs[b] # NoOid /\ HeadOid(Cur) # NoOid

Descendant(b) ==
    /\ Resolves(b)
    /\ HeadOid(Cur) # refs[b]
    /\ HeadOid(Cur) \in Ancestors(commits, refs[b])

Contained(b) == Resolves(b) /\ refs[b] \in Ancestors(commits, HeadOid(Cur))

Unrelated(b) ==
    /\ Resolves(b)
    /\ Ancestors(commits, HeadOid(Cur)) \cap Ancestors(commits, refs[b]) = {}

Diverged(b) == Resolves(b) /\ ~Descendant(b) /\ ~Contained(b) /\ ~Unrelated(b)

\* H and T changed the same path relative to their merge base, differently.
EditedDifferently(b) ==
    LET B == TreeOf(Cur, merge_base(commits, HeadOid(Cur), refs[b]))
        O == TreeOf(Cur, HeadOid(Cur))
        T == TreeOf(Cur, refs[b])
    IN \E p \in Paths : O[p] # T[p] /\ O[p] # B[p] /\ T[p] # B[p]

Configured == create_signature(Cur) = "ok"

\* The working tree of r matches tree: every path holds the tree's version,
\* files git does not track (not in the index) aside.
TreeOnDisk(r, tree) ==
    \A p \in Paths :
        \/ r.workdir[p] = tree[p]
        \/ tree[p] = Absent /\ r.index[p] = Absent /\ p \notin r.conflicts

\* The files on disk are those of HEAD's commit.
Unmodified == ~bare /\ workdir = TreeOf(Cur, HeadOid(Cur))

\* C1: when the tip T of b is a descendant of HEAD's commit H, merge(b)
\* (identity configured, no I/O failure) fast-forwards: the current branch
\* reference becomes T, HEAD stays symbolic on the same branch, no commit is
\* created and, unless the repository is bare, the working tree matches T's
\* tree.
FastForwardMovesBranch ==
    \A b \in Names, m \in Messages :
        Descendant(b) /\ Configured =>
            LET out == merge(Cur, b, m, "none")
            IN /\ out.res.ok
               /\ out.res.msg = "Fast-forward merge"
               /\ head.sym
               /\ out.repo.head = head
               /\ out.repo.refs = [refs EXCEPT ![head.name] = refs[b]]
               /\ out.repo.commits = commits
               /\ ~bare => TreeOnDisk(out.repo, TreeOf(Cur, refs[b]))

\* A fast-forward over a working tree that holds something else than T's tree.
FastForwardReached ==
    \E b \in Names :
        /\ Descendant(b) /\ Configured /\ ~bare
        /\ workdir # TreeOf(Cur, refs[b])
        /\ merge(Cur, b, NoMessage, "none").res.msg = "Fast-forward merge"

\* C2: when the tip T of b is HEAD's commit or an ancestor of it, merge(b)
\* writes nothing (references, HEAD, index, working tree, merge state) and,
\* with the identity configured, returns exactly "Already up-to-date".
UpToDateWritesNothing ==
    \A b \in Names, m \in Messages, io \in IoFailures :
        Contained(b) =>
            LET out == merge(Cur, b, m, io)
            IN /\ out.repo = Cur
               /\ Configured => out.res.ok /\ out.res.msg = "Already up-to-date"

\* An up-to-date merge of a strict ancestor that is not the root commit.
UpToDateReached ==
    \E b \in Names :
        /\ Contained(b) /\ Configured
        /\ refs[b] # HeadOid(Cur)
        /\ commits[refs[b]].parents # <<>>
        /\ merge(Cur, b, NoMessage, "none").res.msg = "Already up-to-date"

\* C3: when H and T have diverged and did not edit a path differently,
\* merge(b) (identity configured, no I/O failure, no local modification on
\* disk) creates exactly one commit, with parents <<H, T>> and the caller's
\* message or "Merge branch '<b>'", and moves the current branch reference
\* to it.
CleanMergeCommits ==
    \A b \in Names, m \in Messages :
        Diverged(b) /\ ~EditedDifferently(b) /\ Configured /\ Unmodified =>
            LET out == merge(Cur, b, m, "none")
                new == Len(commits) + 1
            IN /\ out.res.ok
               /\ out.res.msg = "Merge commit created"
               /\ Len(out.repo.commits) = new
               /\ SubSeq(out.repo.commits, 1, Len(commits)) = commits
               /\ out.repo.commits[new].parents = <<HeadOid(Cur), refs[b]>>
               /\ out.repo.commits[new].message =
                      (IF m = NoMessage THEN <<"Merge branch", b>> ELSE m)
               /\ out.repo.head = head
               /\ out.repo.refs = [refs EXCEPT ![head.name] = new]

\* A clean merge of diverged branches, with the default message.
CleanMergeReached ==
    \E b \in Names :
        /\ Diverged(b) /\ ~EditedDifferently(b) /\ Configured /\ Unmodified
        /\ merge(Cur, b, NoMessage, "none").res.msg = "Merge commit created"

\* C4: when H and T edited the same path differently, merge(b) fails and
\* leaves HEAD and every branch reference as they were; with the identity
\* configured, no I/O failure and the edited file unchanged on disk, the
\* failure is "Merge conflicts detected".
ConflictKeepsRefs ==
    \A b \in Names, m \in Messages, io \in IoFailures :
        Diverged(b) /\ EditedDifferently(b) =>
            LET out == merge(Cur, b, m, io)
            IN /\ ~out.res.ok
               /\ out.repo.refs = refs
               /\ out.repo.head = head
               /\ (Configured /\ io = "none" /\ Unmodified)
                  => out.res.msg = "Merge conflicts detected"

\* A merge that stops on a conflict.
ConflictReached ==
    \E b \in Names :
        /\ Diverged(b) /\ EditedDifferently(b)
        /\ merge(Cur, b, NoMessage, "none").res.msg = "Merge conflicts detected"

\* The outcomes of every merge and of every pull callable in this state.
MergeOutcomes ==
    {merge(Cur, b, m, io) : b \in Names, m \in Messages, io \in IoFailures}

PullOutcomes ==
    UNION {{pull(Cur, rn, b, io) : b \in Names \cup {NoBranch}, io \in IoFailures} :
           rn \in RemoteNames}

ConflictReports ==
    {"Merge conflicts detected", "Merge conflicts detected during pull"}
MergeCommitReports == {"Merge commit created", "Pull merge commit created"}

\* A call that reports a conflict created no commit, moved no reference and
\* left the index conflicted with the merge in progress.
ConflictLeftOpen(out) ==
    out.res.msg \in ConflictReports =>
        /\ ~out.res.ok
        /\ out.repo.commits = commits
        /\ out.repo.refs = refs
        /\ out.repo.head = head
        /\ out.repo.conflicts # {}
        /\ out.repo.mergeHead # NoOid

\* C5, as amended: a merge or pull that reports a conflict creates no commit
\* and leaves the repository conflicted with the merge in progress; a
\* successful merge or pull clears the merge state only when it created the
\* merge commit, so it ends with no merge in progress when it created the
\* merge commit or began with none.
ConflictStaysForResolution ==
    \A out \in MergeOutcomes \cup PullOutcomes :
        /\ ConflictLeftOpen(out)
        /\ out.res.ok /\ (out.res.msg \in MergeCommitReports \/ mergeHead = NoOid)
               => out.repo.mergeHead = NoOid
        /\ out.res.ok /\ mergeHead # NoOid /\ out.repo.mergeHead = NoOid
               => out.res.msg \in MergeCommitReports

\* C5, as stated: ... and after every successful merge or pull no merge is
\* in progress.
SuccessEndsEveryMerge ==
    \A out \in MergeOutcomes \cup PullOutcomes :
        /\ ConflictLeftOpen(out)
        /\ out.res.ok => out.repo.mergeHead = NoOid

\* A pull that stops on a conflict.
PullConflictReached ==
    \E b \in Names \cup {NoBranch} :
        pull(Cur, "origin", b, "none").res.msg = "Merge conflicts detected during pull"

\* C6: after a successful merge(b), the same call made again returns exactly
\* "Already up-to-date" and changes nothing.
MergeTwiceIsUpToDate ==
    \A b \in Names, m \in Messages, again \in IoFailures :
        LET first == merge(Cur, b, m, "none")
            second == merge(first.repo, b, m, again)
        IN first.res.ok =>
               /\ second.res.ok
               /\ second.res.msg = "Already up-to-date"
               /\ second.repo = first.repo

\* A fast-forward followed by the same merge.
SecondMergeReached ==
    \E b \in Names :
        LET first == merge(Cur, b, NoMessage, "none")
        IN /\ first.res.msg = "Fast-forward merge"
           /\ merge(first.repo, b, NoMessage, "none").res.msg = "Already up-to-date"

\* C7, as stated: a merge that returns an error has left HEAD and every
\* branch reference as they were.
FailedMergeKeepsRefs ==
    \A b \in Names, m \in Messages, io \in IoFailures :
        LET out == merge(Cur, b, m, io)
        IN ~out.res.ok => out.repo.refs = refs /\ out.repo.head = head

\* C8: merge(b) fails and changes nothing when b names no branch, HEAD is
\* unborn, or the histories of H and T share no commit.
UnresolvableMergeFails ==
    \A b \in Names, m \in Messages, io \in IoFailures :
        refs[b] = NoOid \/ HeadOid(Cur) = NoOid \/ Unrelated(b) =>
            LET out == merge(Cur, b, m, io)
            IN /\ ~out.res.ok
               /\ out.repo = Cur
               /\ Configured => out.res.msg =
                      (IF refs[b] = NoOid THEN "Failed to find branch"
                       ELSE IF HeadOid(Cur) = NoOid THEN "Failed to get HEAD"
                       ELSE "Failed to find merge base")

\* A merge of a branch whose history shares nothing with HEAD's, after work
\* has been committed.
UnrelatedMergeReached ==
    \E b \in Names :
        /\ Unrelated(b) /\ Configured
        /\ Len(commits) > 2
        /\ merge(Cur, b, NoMessage, "none").res.msg = "Failed to find merge base"

-----------------------------------------------------------------------------
(* Properties of the repository as a whole *)

\* The outcomes of every call of a mutating operation in this state.
MutatingOutcomes ==
    {create_and_checkout_branch(Cur, n, io) : n \in Names, io \in IoFailures}
        \cup {checkout_branch(Cur, n, io) : n \in Names, io \in IoFailures}
        \cup MergeOutcomes \cup PullOutcomes

\* HEAD names a branch, the branch points at a commit and the working tree
\* matches that commit's tree.
Consistent(r) ==
    /\ r.head.sym
    /\ r.refs[r.head.name] # NoOid
    /\ TreeOnDisk(r, TreeOf(r, r.refs[r.head.name]))

HeadBranchExists ==
    /\ head.sym
    /\ refs[head.name] = NoOid => \A n \in Names : refs[n] = NoOid

\* Deleting the branch HEAD names is refused after another branch was deleted.
HeadBranchSpared ==
    /\ refs[head.name] # NoOid
    /\ \E n \in Names : refs[n] = NoOid
    /\ tracking[head.name] # NoOid
    /\ ~delete_branch(Cur, head.name, "none").res.ok

-----------------------------------------------------------------------------
(* Properties of the branch manager and of pruning *)

\* The branch the merged test compares against: main, master without it.
MainLine == IF refs["main"] # NoOid THEN "main" ELSE "master"

\* Branch b has a commit that the main line does not have.
AheadOfMainLine(b) ==
    /\ refs[b] # NoOid /\ refs[MainLine] # NoOid
    /\ refs[b] \notin Ancestors(commits, refs[MainLine])

\* The calls of merge(b) on the main line that report a fast-forward or a
\* merge commit.
MergesIntoMainLine(b) ==
    {out \in {merge(Cur, b, m, io) : m \in Messages, io \in IoFailures} :
        /\ get_current_branch(Cur) = MainLine
        /\ out.res.ok
        /\ out.res.msg \in {"Fast-forward merge", "Merge commit created"}}

\* C11: for a branch b with a commit the main line does not have,
\* is_branch_merged_to_main(b) answers false before b is merged and true
\* right after merge(b), called on the main line, succeeded with a
\* fast-forward or with a merge commit.
MergeTurnsMergedTrue ==
    \A b \in Branches :
        AheadOfMainLine(b) =>
            \A out \in MergesIntoMainLine(b) :
                /\ is_branch_merged_to_main(Cur, b) = Answer(FALSE)
                /\ is_branch_merged_to_main(out.repo, b) = Answer(TRUE)

\* One branch can be fast-forwarded into the main line and another needs a
\* merge commit; both are unmerged before and merged after.
BothMergeKindsReached ==
    \E b1, b2 \in Branches :
        /\ AheadOfMainLine(b1) /\ AheadOfMainLine(b2)
        /\ \E out \in MergesIntoMainLine(b1) :
               /\ out.res.msg = "Fast-forward merge"
               /\ is_branch_merged_to_main(out.repo, b1).value
        /\ \E out \in MergesIntoMainLine(b2) :
               /\ out.res.msg = "Merge commit created"
               /\ is_branch_merged_to_main(out.repo, b2).value

\* C12, as stated: for every existing branch b, while main or master exists,
\* is_branch_merged_to_main(b) answers true when b's tip is the merge base of
\* b's tip and the main-line tip (b's tip is reachable from the main line),
\* and answers false otherwise.
MergedIffTipOnMainLine ==
    \A b \in Branches :
        refs[b] # NoOid /\ refs[MainLine] # NoOid =>
            is_branch_merged_to_main(Cur, b)
                = Answer(refs[b] \in Ancestors(commits, refs[MainLine]))

\* The answer res is the comparison of b's tip with the commit tip: when
\* there is an answer it says whether b's tip is reachable from tip, and it
\* is never the failure to find a main line.
ComparedWith(res, b, tip) ==
    /\ res.ok => res.value = (refs[b] \in Ancestors(commits, tip))
    /\ ~res.ok => res.msg = "Failed to find merge base"

\* C13: for an existing branch b, is_branch_merged_to_main(b) compares with
\* main whenever main exists, with master only when main does not exist, and
\* fails with "Failed to find main/master branch" when neither exists.
MainBeforeMaster ==
    \A b \in Branches :
        LET res == is_branch_merged_to_main(Cur, b)
        IN refs[b] # NoOid =>
            /\ refs["main"] # NoOid => ComparedWith(res, b, refs["main"])
            /\ refs["main"] = NoOid /\ refs["master"] # NoOid =>
                   ComparedWith(res, b, refs["master"])
            /\ refs["main"] = NoOid /\ refs["master"] = NoOid =>
                   res = Failure("Failed to find main/master branch")

\* main and master both exist and disagree about a branch: it is merged to
\* master, not to main, and the answer is main's.
MainAndMasterDisagree ==
    \E b \in Branches \ {"main", "master"} :
        /\ refs[b] # NoOid /\ refs["main"] # NoOid /\ refs["master"] # NoOid
        /\ refs[b] \in Ancestors(commits, refs["master"])
        /\ refs[b] \notin Ancestors(commits, refs["main"])
        /\ is_branch_merged_to_main(Cur, b) = Answer(FALSE)

\* The branches that exist in Cur and no longer exist in r.
Deleted(r) == {b \in Branches : refs[b] # NoOid /\ r.refs[b] = NoOid}

\* C14: prune_merged_branches deletes a branch only if it is not the current
\* branch, is none of main, master and develop, and
\* is_branch_merged_to_main answered true for it; nothing else in the
\* repository changes, and a dry run deletes nothing.
PruneDeletesOnlyMerged ==
    \A dry_run \in BOOLEAN :
        LET out == prune_merged_branches(Cur, dry_run)
        IN /\ \A b \in Deleted(out.repo) :
                  /\ b # get_current_branch(Cur)
                  /\ b \notin {"main", "master", "develop"}
                  /\ is_branch_merged_to_main(Cur, b) = Answer(TRUE)
           /\ out.repo = [Cur EXCEPT !.refs = out.repo.refs]
           /\ dry_run => out.repo = Cur

\* A prune deletes a merged branch while develop, merged as well and not
\* checked out, is kept, and the dry run before it deleted nothing.
PruneSparesDevelop ==
    /\ get_current_branch(Cur) # "develop"
    /\ is_branch_merged_to_main(Cur, "develop") = Answer(TRUE)
    /\ Deleted(prune_merged_branches(Cur, FALSE).repo) # {}
    /\ prune_merged_branches(Cur, TRUE).res.msg = "would be deleted"

\* C15: in a repository without commits a successful
\* create_and_checkout_branch(name) changes nothing but HEAD, which becomes
\* symbolic on the unborn branch name: the branch list and the commit list
\* stay empty; after the first commit the branch list is exactly [name].
UnbornBranchOnlyMovesHead ==
    Len(commits) = 0 =>
        \A n \in Branches, io \in IoFailures :
            LET out == create_and_checkout_branch(Cur, n, io)
                first == commit(out.repo, UserMessage, "none")
            IN out.res.ok =>
                /\ out.repo = [Cur EXCEPT !.head = Symbolic(n)]
                /\ get_all_branches(out.repo) = <<>>
                /\ Len(out.repo.commits) = 0
                /\ first.res.ok =>
                       /\ get_all_branches(first.repo) = <<n>>
                       /\ Len(first.repo.commits) = 1

\* HEAD was re-pointed to the unborn branch feature, and the first commit
\* gives birth to it.
UnbornFeatureReached ==
    /\ Len(commits) = 0 /\ head = Symbolic("feature")
    /\ get_all_branches(Cur) = <<>>
    /\ get_all_branches(commit(Cur, UserMessage, "none").repo) = <<"feature">>

\* C16: when HEAD resolves to a commit C, create_and_checkout_branch(name)
\* succeeds for a free name (no I/O failure), and a successful call creates
\* name at C and makes HEAD symbolic on it, leaving every branch that existed
\* before, the index, the working tree and the rest of the repository as
\* they were.
CreateBranchAtHead ==
    HeadOid(Cur) # NoOid =>
        \A n \in Branches, io \in IoFailures :
            LET out == create_and_checkout_branch(Cur, n, io)
            IN /\ refs[n] = NoOid /\ io = "none" => out.res.ok
               /\ out.res.ok =>
                   /\ out.repo.refs[n] = HeadOid(Cur)
                   /\ out.repo.head = Symbolic(n)
                   /\ \A m \in Branches :
                          refs[m] # NoOid => out.repo.refs[m] = refs[m]
                   /\ out.repo.workdir = workdir /\ out.repo.index = index
                   /\ out.repo = [Cur EXCEPT !.refs = out.repo.refs,
                                             !.head = out.repo.head]

\* A branch is created at HEAD's commit while the working tree holds an
\* uncommitted edit and another branch exists.
BranchCreatedOverEdit ==
    /\ HeadOid(Cur) # NoOid /\ refs["feature"] = NoOid
    /\ ~bare /\ workdir # TreeOf(Cur, HeadOid(Cur))
    /\ LET out == create_and_checkout_branch(Cur, "feature", "none")
       IN /\ out.res.ok /\ out.repo.refs["feature"] = refs["master"]
          /\ out.repo.workdir = workdir

\* C17, as stated: whenever the local branch name exists,
\* create_and_checkout_branch(name) fails with "Failed to create branch"
\* (the name is taken) and changes neither HEAD nor any branch, in every
\* state, HEAD on an unborn branch beside existing branches included.
ExistingNameIsRefused ==
    \A n \in Branches, io \in IoFailures :
        refs[n] # NoOid =>
            LET out == create_and_checkout_branch(Cur, n, io)
            IN /\ ~out.res.ok
               /\ out.res.msg = "Failed to create branch"
               /\ out.repo.head = head
               /\ out.repo.refs = refs

\* C18: checkout_branch(name) fails with "revspec not found", changing
\* nothing, when there is no local branch name; a successful call leaves HEAD
\* symbolic on name and, unless the repository is bare, every file is the
\* one of the branch's commit or an uncommitted edit carried over on a path
\* that HEAD's commit and the branch's commit agree on, so a working tree
\* without uncommitted edits becomes the tree of the branch's commit.
CheckoutSwitchesToBranch ==
    \A n \in Branches, io \in IoFailures :
        LET out == checkout_branch(Cur, n, io)
            base == TreeOf(Cur, HeadOid(Cur))
            target == TreeOf(Cur, refs[n])
        IN /\ refs[n] = NoOid =>
                 ~out.res.ok /\ out.res.msg = "revspec not found" /\ out.repo = Cur
           /\ out.res.ok =>
                 /\ out.repo.head = Symbolic(n)
                 /\ out.repo.refs = refs
                 /\ ~bare =>
                       /\ \A p \in Paths :
                              \/ out.repo.workdir[p] = target[p]
                              \/ /\ base[p] = target[p]
                                 /\ out.repo.workdir[p] = workdir[p]
                       /\ Unmodified => out.repo.workdir = target

\* C18, as stated: a successful checkout_branch(name) leaves HEAD symbolic on
\* name and, unless the repository is bare, the working tree equal to the
\* tree of the branch's commit.
CheckoutGivesBranchTree ==
    \A n \in Branches, io \in IoFailures :
        LET out == checkout_branch(Cur, n, io)
        IN out.res.ok =>
            /\ out.repo.head = Symbolic(n)
            /\ ~bare => out.repo.workdir = TreeOf(Cur, refs[n])

\* One checkout rewrites the files of a working tree without edits, and the
\* checkout of a name without a branch is refused.
CheckoutRewritesFiles ==
    /\ Unmodified /\ Len(commits) > 2
    /\ \E n \in Branches :
           LET out == checkout_branch(Cur, n, "none")
           IN /\ out.res.ok /\ n # head.name
              /\ out.repo.workdir # workdir
              /\ out.repo.workdir = TreeOf(Cur, refs[n])
    /\ \E n \in Branches : checkout_branch(Cur, n, "none").res.msg = "revspec not found"

\* C19, as stated: when a step of checkout_branch fails (the branch lookup,
\* the working-tree checkout or the re-pointing of HEAD) the repository is
\* as it was before the call; a failed set_head leaves no switched working
\* tree behind.
FailedCheckoutKeepsRepository ==
    \A n \in Branches, io \in IoFailures :
        LET out == checkout_branch(Cur, n, io)
        IN ~out.res.ok => out.repo = Cur

\* C20: get_current_branch returns n exactly when HEAD is symbolic on
\* refs/heads/n, born or unborn, and fails (no branch) when HEAD is not
\* symbolic; it follows HEAD through every create_and_checkout_branch and
\* checkout_branch: n after a successful call with n, and HEAD's branch of
\* the resulting repository after a failed one.
CurrentBranchFollowsHead ==
    /\ \A n \in Branches : get_current_branch(Cur) = n <=> head = Symbolic(n)
    /\ get_current_branch(Cur) = NoBranch <=> ~head.sym
    /\ \A n \in Branches, io \in IoFailures :
           \A out \in {create_and_checkout_branch(Cur, n, io),
                        checkout_branch(Cur, n, io)} :
               /\ out.res.ok => get_current_branch(out.repo) = n
               /\ ~out.res.ok => get_current_branch(out.repo) = get_current_branch(Cur)

\* With HEAD detached on a commit made after the repository was opened
\* there is no current branch, and each of the two calls gives one.
DetachedHeadLeft ==
    /\ ~head.sym /\ head.oid > 1
    /\ get_current_branch(Cur) = NoBranch
    /\ get_current_branch(create_and_checkout_branch(Cur, "feature", "none").repo)
           = "feature"
    /\ get_current_branch(checkout_branch(Cur, "master", "none").repo) = "master"

-----------------------------------------------------------------------------
(* Properties of delete_branch, the remote operations and the repository setup *)

\* C21: delete_branch(b) applies no policy of its own: every existing
\* branch b other than the one HEAD names, protected or not, merged or not,
\* is deleted (no I/O failure), and a successful call removes exactly
\* refs/heads/b, leaving HEAD, every other reference and all commits as they
\* were; for the branch HEAD names and for a branch that does not exist the
\* call fails and changes nothing.
DeleteRemovesOneRef ==
    \A b \in Branches, io \in IoFailures :
        LET out == delete_branch(Cur, b, io)
        IN /\ refs[b] # NoOid /\ head # Symbolic(b) /\ io = "none" => out.res.ok
           /\ refs[b] = NoOid \/ head = Symbolic(b) => ~out.res.ok
           /\ out.res.ok => out.repo = [Cur EXCEPT !.refs[b] = NoOid]
           /\ ~out.res.ok => out.repo = Cur

\* C21, as stated: every existing branch, the current one included, is
\* deleted by delete_branch(b) (no I/O failure), which removes exactly
\* refs/heads/b.
DeleteRemovesAnyBranch ==
    \A b \in Branches :
        refs[b] # NoOid =>
            LET out == delete_branch(Cur, b, "none")
            IN out.res.ok /\ out.repo = [Cur EXCEPT !.refs[b] = NoOid]

\* The main line itself, holding a commit no other branch has, is deleted
\* while it is not checked out, and the deletion of the current branch is
\* refused.
UnmergedMainDeleted ==
    /\ head.sym /\ head.name # "main" /\ refs[head.name] # NoOid
    /\ refs["main"] # NoOid
    /\ \A b \in Branches \ {"main"} :
           refs["main"] \notin Ancestors(commits, refs[b])
    /\ delete_branch(Cur, "main", "none").repo.refs["main"] = NoOid
    /\ ~delete_branch(Cur, head.name, "none").res.ok

\* The outcome class of a merge or pull result.
OutcomeClass(res) ==
    IF res.msg = "Already up-to-date" THEN "up-to-date"
    ELSE IF res.msg \in {"Fast-forward merge", "Fast-forward pull"} THEN "fast-forward"
    ELSE IF res.msg \in MergeCommitReports THEN "merge commit"
    ELSE IF res.msg \in ConflictReports THEN "conflict"
    ELSE "failure"

\* Repositories r1 and r2 are the same but for the wording of commit
\* messages and for the branch scratch.
SameButWording(r1, r2, scratch) ==
    /\ [r1.refs EXCEPT ![scratch] = NoOid] = [r2.refs EXCEPT ![scratch] = NoOid]
    /\ r1.head = r2.head
    /\ r1.index = r2.index /\ r1.conflicts = r2.conflicts
    /\ r1.workdir = r2.workdir /\ r1.mergeHead = r2.mergeHead
    /\ r1.tracking = r2.tracking /\ r1.remote = r2.remote
    /\ Len(r1.commits) = Len(r2.commits)
    /\ \A i \in 1..Len(r1.commits) :
           /\ r1.commits[i].parents = r2.commits[i].parents
           /\ r1.commits[i].tree = r2.commits[i].tree

\* pull(remote_name, b) with failure point io gives what fetch followed by
\* the merge of the fetched commit, reached through the otherwise unused
\* branch develop, gives.
PullIsFetchThenMerge(remote_name, b, io) ==
    LET target == IF b = NoBranch THEN get_current_branch(Cur) ELSE b
        fetched == fetch(Cur, remote_name, target, io)
        R == fetched.repo.tracking[target]
        viaMerge == merge([fetched.repo EXCEPT !.refs["develop"] = R],
                          "develop", NoMessage, io)
        viaPull == pull(Cur, remote_name, b, io)
    IN fetched.res.ok /\ R # NoOid =>
        /\ viaPull.res.ok = viaMerge.res.ok
        /\ OutcomeClass(viaPull.res) = OutcomeClass(viaMerge.res)
        /\ viaPull.res.oid = viaMerge.res.oid
        /\ SameButWording(viaPull.repo, viaMerge.repo, "develop")

\* C22, as stated: pull is fetch followed by the merge engine in every
\* state, differing only in the wording of messages.
PullAlwaysComposes ==
    \A b \in Names \cup {NoBranch}, io \in IoFailures :
        PullIsFetchThenMerge("origin", b, io)

\* The current branch b is strictly behind the remote's branch b: HEAD's
\* commit is an ancestor of the remote's commit and is not that commit.
BehindRemote(b) ==
    /\ head = Symbolic(b)
    /\ HeadOid(Cur) # NoOid /\ remote[b] # NoOid
    /\ HeadOid(Cur) # remote[b]
    /\ HeadOid(Cur) \in Ancestors(commits, remote[b])

\* C23: when the current branch b is strictly behind the remote's b,
\* pull(remote, Some(b)) (no I/O failure) reports a fast-forward to the
\* remote's commit, moves b to it, keeps HEAD on b, creates no commit and,
\* unless the repository is bare, leaves that commit's tree on disk; the
\* same pull made again at once returns "Already up-to-date" and changes
\* nothing.
PullFastForwardsThenUpToDate ==
    \A b \in Names :
        BehindRemote(b) =>
            LET out == pull(Cur, "origin", b, "none")
                again == pull(out.repo, "origin", b, "none")
            IN /\ out.res.ok /\ out.res.msg = "Fast-forward pull"
               /\ out.res.oid = remote[b]
               /\ out.repo.refs = [refs EXCEPT ![b] = remote[b]]
               /\ out.repo.head = head
               /\ out.repo.commits = commits
               /\ ~bare => TreeOnDisk(out.repo, TreeOf(Cur, remote[b]))
               /\ again.res.ok /\ again.res.msg = "Already up-to-date"
               /\ again.repo = out.repo

\* A pull fast-forwards master over a commit not fetched before and rewrites
\* a file.
PullFastForwardReached ==
    /\ BehindRemote("master") /\ ~bare
    /\ tracking["master"] # remote["master"]
    /\ LET out == pull(Cur, "origin", "master", "none")
       IN /\ out.res.msg = "Fast-forward pull"
          /\ out.repo.workdir # workdir
          /\ pull(out.repo, "origin", "master", "none").res.msg = "Already up-to-date"

\* C24: fetch(remote, Some(b)) changes nothing but the remote-tracking
\* reference of b, which a successful fetch leaves at the remote's commit
\* when the remote has the branch; a failed fetch, the one for an unknown
\* remote name ("Remote not found") included, changes nothing at all; local
\* branches, HEAD, the index and the working tree are never touched.
FetchWritesTrackingOnly ==
    \A rn \in RemoteNames, b \in Names, io \in IoFailures :
        LET out == fetch(Cur, rn, b, io)
        IN /\ out.repo = [Cur EXCEPT !.tracking[b] = out.repo.tracking[b]]
           /\ out.repo.refs = refs /\ out.repo.head = head
           /\ out.repo.index = index /\ out.repo.workdir = workdir
           /\ out.res.ok /\ remote[b] # NoOid => out.repo.tracking[b] = remote[b]
           /\ ~out.res.ok => out.repo = Cur
           /\ rn \notin Remotes => ~out.res.ok /\ out.res.msg = "Remote not found"

\* A fetch moves origin/master to a commit the local master does not have,
\* and the same fetch from an unknown remote fails.
FetchMovesTracking ==
    /\ refs["master"] # NoOid
    /\ remote["master"] \notin Ancestors(commits, refs["master"])
    /\ LET out == fetch(Cur, "origin", "master", "none")
       IN /\ out.res.msg = "Fetched objects"
          /\ out.repo.tracking["master"] = remote["master"]
          /\ out.repo.tracking # tracking
    /\ ~fetch(Cur, "upstream", "master", "none").res.ok

\* C25: a successful push(remote, b) leaves the remote's refs/heads/b at the
\* commit of the local refs/heads/b, creates or changes no other branch of
\* the remote and changes nothing local but the remote-tracking reference
\* of b; a failed push changes nothing.  push_current_branch(remote) is the
\* push of the branch HEAD names, and fails without pushing when HEAD is
\* not symbolic.
PushSendsOneBranch ==
    \A rn \in RemoteNames, io \in IoFailures :
        /\ \A b \in Names :
               LET out == push(Cur, rn, b, io)
               IN /\ out.res.ok =>
                      /\ refs[b] # NoOid /\ out.repo.remote[b] = refs[b]
                      /\ out.repo.remote = [remote EXCEPT ![b] = refs[b]]
                      /\ out.repo = [Cur EXCEPT !.remote = out.repo.remote,
                                                !.tracking[b] = refs[b]]
                  /\ ~out.res.ok => out.repo = Cur
        /\ LET out == push_current_branch(Cur, rn, io)
           IN /\ head.sym => out = push(Cur, rn, head.name, io)
              /\ ~head.sym => ~out.res.ok /\ out.repo = Cur
              /\ \A b \in Branches :
                     out.repo.remote[b] # remote[b] => head = Symbolic(b)

\* The current branch feature is pushed for the first time while the local
\* master is ahead of the remote's, which stays where it was.
FeaturePushedAlone ==
    /\ head = Symbolic("feature") /\ refs["feature"] # NoOid
    /\ remote["feature"] = NoOid
    /\ refs["master"] # remote["master"]
    /\ LET out == push_current_branch(Cur, "origin", "none")
       IN /\ out.res.ok
          /\ out.repo.remote["feature"] = refs["feature"]
          /\ out.repo.remote["master"] = remote["master"]

\* C26, as stated: when two calls made at the same time have both reported
\* success on the same branch, the branch has the commit each of them made
\* or moved it to as its tip or among the tip's ancestors: no interleaving
\* loses an update.
NoLostUpdate ==
    \A c, d \in Callers :
        /\ c # d
        /\ calls[c].pc = "ok" /\ calls[d].pc = "ok"
        /\ calls[c].branch = calls[d].branch
        => calls[c].made \in Ancestors(commits, refs[calls[c].branch])

\* C27: init(path) fails with "Directory is already a git repository" and
\* leaves the repository as it is when the path holds one; on a path without
\* a repository (no I/O failure) it creates a repository whose HEAD is
\* symbolic on the unborn branch master, without branches and without
\* commits.
InitRefusesExistingRepository ==
    /\ \A cfg \in Configs, io \in IoFailures :
           LET out == init(Cur, cfg, io)
           IN /\ ~out.res.ok
              /\ out.res.msg = "Directory is already a git repository"
              /\ out.repo = Cur
    /\ \A cfg \in Configs :
           LET out == init(NoRepository, cfg, "none")
           IN /\ out.res.ok
              /\ out.repo.head = Symbolic("master")
              /\ out.repo.refs["master"] = NoOid
              /\ get_all_branches(out.repo) = <<>>
              /\ out.repo.commits = <<>>
              /\ ~out.repo.bare

\* The repository is the one init just created, a file has been written and
\* staged in it, and a second init on the same path is refused.
InitRepeated ==
    /\ index # EmptyTree
    /\ [Cur EXCEPT !.index = EmptyTree, !.workdir = EmptyTree]
           = init(NoRepository, config, "none").repo
    /\ ~init(Cur, config, "none").res.ok

\* The repository r with a working tree, holding the files of HEAD's commit.
WithWorkingTree(r) ==
    [r EXCEPT !.bare = FALSE,
              !.index = TreeOf(r, HeadOid(r)),
              !.workdir = TreeOf(r, HeadOid(r))]

\* The call outcome out wrote no file, and did to the references and the
\* commit graph what twin, the same call on the same repository with a
\* working tree, did.
OnlySkipsCheckout(out, twin) ==
    /\ out.repo.workdir = workdir
    /\ out.res.ok = twin.res.ok
    /\ out.repo.refs = twin.repo.refs
    /\ out.repo.head = twin.repo.head
    /\ Len(out.repo.commits) = Len(twin.repo.commits)
    /\ \A i \in 1..Len(out.repo.commits) :
           out.repo.commits[i].parents = twin.repo.commits[i].parents

IdentityMissing == ~({"user.name", "user.email"} \subseteq config)

\* The failure of create_signature, naming the first configuration value
\* that is missing and the command that sets it.
MissingIdentity(res) ==
    /\ ~res.ok
    /\ res.msg = "Failed to create signature"
    /\ res.oid = NoOid
    /\ res.cause =
           IF "user.name" \notin config
           THEN "Failed to get user.name from git config. Run: git config user.name \"Your Name\""
           ELSE "Failed to get user.email from git config. Run: git config user.email \"your@email.com\""

\* The remote's branch b and HEAD's commit have a common ancestor and neither
\* contains the other: pull(origin, b) has a merge commit to author.
PullWouldCommit(b) ==
    /\ HeadOid(Cur) # NoOid /\ remote[b] # NoOid
    /\ HeadOid(Cur) \notin Ancestors(commits, remote[b])
    /\ remote[b] \notin Ancestors(commits, HeadOid(Cur))
    /\ Ancestors(commits, HeadOid(Cur)) \cap Ancestors(commits, remote[b]) # {}

\* commit and merge, called without user.name or user.email, fail with
\* MissingIdentity and leave the repository as it was.
AuthoringRefused ==
    \A b \in Names, m \in Messages, io \in IoFailures :
        /\ MissingIdentity(commit(Cur, UserMessage, io).res)
        /\ commit(Cur, UserMessage, io).repo = Cur
        /\ MissingIdentity(merge(Cur, b, m, io).res)
        /\ merge(Cur, b, m, io).repo = Cur

\* C29, as stated: without user.name or user.email, commit, merge and a pull
\* that has a merge commit to author fail with MissingIdentity, naming the
\* missing value and how to set it, create no commit and move no reference.
MissingIdentityMovesNoRef ==
    IdentityMissing =>
        /\ AuthoringRefused
        /\ \A b \in RemoteBranches :
               PullWouldCommit(b) =>
                   /\ MissingIdentity(pull(Cur, "origin", b, "none").res)
                   /\ pull(Cur, "origin", b, "none").repo = Cur

\* C29, amended: the same, except that the failed pull has fetched first: it
\* leaves the repository as fetch(origin, b) leaves it, with the
\* remote-tracking reference moved and no local branch, HEAD, commit or file
\* changed.
MissingIdentityMovesNoBranch ==
    IdentityMissing =>
        /\ AuthoringRefused
        /\ \A b \in RemoteBranches :
               PullWouldCommit(b) =>
                   LET out == pull(Cur, "origin", b, "none")
                   IN /\ MissingIdentity(out.res)
                      /\ out.repo = [Cur EXCEPT !.tracking[b] = remote[b]]
                      /\ out.repo = fetch(Cur, "origin", b, "none").repo

\* A pull refused for the missing identity after its fetch moved the
\* remote-tracking reference, in a repository with a staged change that
\* commit refuses to record.
IdentityMissedAfterFetch ==
    /\ IdentityMissing
    /\ index # TreeOf(Cur, HeadOid(Cur))
    /\ MissingIdentity(commit(Cur, UserMessage, "none").res)
    /\ \E b \in RemoteBranches :
           /\ PullWouldCommit(b)
           /\ MissingIdentity(pull(Cur, "origin", b, "none").res)
           /\ pull(Cur, "origin", b, "none").repo.tracking[b] # tracking[b]

\* C30: list_commits returns, whatever the commit times, exactly the commits
\* reachable from HEAD, each once and with its message, no commit before
\* one of its descendants, and a commit that could have come earlier (all
\* its descendants in the walk were out already) only after newer ones; on
\* an unborn HEAD it returns the empty list and no error.  It reads the
\* repository and writes nothing.
ListCommitsWalksHistory ==
    \A when \in Clocks(Len(commits)) :
        LET out == list_commits(Cur, when)
            log == out.value
            reachable == Ancestors(commits, HeadOid(Cur))
        IN /\ out.ok
           /\ HeadOid(Cur) = NoOid => log = <<>>
           /\ Len(log) = Cardinality(reachable)
           /\ {log[i].hash : i \in 1..Len(log)} = reachable
           /\ \A i \in 1..Len(log) : log[i].message = commits[log[i].hash].message
           /\ \A i, j \in 1..Len(log) :
                  i < j =>
                      /\ log[i].hash # log[j].hash
                      /\ log[i].hash \notin Ancestors(commits, log[j].hash)
                      /\ (\A k \in i..Len(log) :
                              k # j => log[j].hash \notin Ancestors(commits, log[k].hash))
                         => when[log[j].hash] < when[log[i].hash]

\* HEAD is a merge commit over two lines of work, and with the older line's
\* commit stamped later than the merge the log still starts at the merge and
\* lists the later-stamped parent before the other.
MergeHistoryListed ==
    /\ HeadOid(Cur) = 4
    /\ Len(commits[4].parents) = 2
    /\ \E when \in Clocks(Len(commits)) :
           LET log == list_commits(Cur, when).value
           IN /\ when[4] < when[2] /\ when[3] < when[2]
              /\ Len(log) = 4
              /\ log[1].hash = 4 /\ log[2].hash = 2 /\ log[3].hash = 3 /\ log[4].hash = 1

StagedChangesFollowIndex ==
    /\ \A isBare \in BOOLEAN, cfg \in Configs :
           has_staged_changes(FreshRepo(isBare, cfg)) = Answer(FALSE)
    /\ \A io \in IoFailures :
           commit(Cur, UserMessage, io).res.ok =>
               has_staged_changes(commit(Cur, UserMessage, io).repo) = Answer(FALSE)
    /\ \A p \in Paths, c \in Contents :
           has_staged_changes([Cur EXCEPT !.workdir[p] = c]) = has_staged_changes(Cur)
    /\ \A p \in Paths :
           /\ ~bare
           /\ workdir[p] # Absent
           /\ conflicts \subseteq {p}
           /\ HeadOid(Cur) = NoOid \/ workdir[p] # TreeOf(Cur, HeadOid(Cur))[p]
           => /\ add(Cur, p).res.ok
              /\ has_staged_changes(add(Cur, p).repo) = Answer(TRUE)

\* On a born HEAD a file was edited on disk only (nothing staged), add()
\* stages it, and the commit of it leaves nothing staged again.
StagedThenCommitted ==
    /\ HeadOid(Cur) # NoOid /\ Configured /\ ~bare
    /\ has_staged_changes(Cur) = Answer(FALSE)
    /\ \E p \in Paths :
           /\ workdir[p] # Absent /\ workdir[p] # index[p]
           /\ has_staged_changes(add(Cur, p).repo) = Answer(TRUE)
           /\ has_staged_changes(commit(add(Cur, p).repo, UserMessage, "none").repo)
                  = Answer(FALSE)

\* The generator failed: it did not start, exited with a failure, or printed
\* no JSON object with a non-empty string under result.
GeneratorFailed(process) ==
    \/ ~process.spawned
    \/ ~process.success
    \/ process.stdout.kind # "result"
    \/ process.stdout.result = <<>>

\* C33: generate_commit_message returns no error; on an empty diff it returns
\* no suggestion and launches nothing; whenever the generator fails it
\* returns no suggestion.
SuggestionNeverFails ==
    \A process \in Processes :
        LET out == generate_commit_message(diff_staged(Cur), process)
        IN /\ out.ok
           /\ diff_staged(Cur) = <<>> => ~out.some /\ ~out.started
           /\ GeneratorFailed(process) => ~out.some

\* Something is staged, so the generator is launched: a run that prints no
\* JSON yields no suggestion, a run that prints a message yields it trimmed.
SuggestionAsked ==
    /\ diff_staged(Cur) # <<>>
    /\ \E process \in Processes :
           /\ process.spawned /\ process.success /\ process.stdout.kind = "not json"
           /\ generate_commit_message(diff_staged(Cur), process) = NoSuggestion(TRUE)
    /\ \E process \in Processes :
           /\ process.stdout.result = <<" ", "m", " ">>
           /\ process.success
           /\ generate_commit_message(diff_staged(Cur), process) = Suggestion(<<"m">>)

\* C34: in a session that starts from init, init_bare or a repository opened
\* on a branch, whatever create_and_checkout_branch, checkout_branch,
\* delete_branch, add, commit, merge, fetch, pull and push calls are made and
\* wherever they fail, HEAD is a symbolic reference to a branch.
HeadStaysSymbolic == head.sym /\ head.name \in Names

\* HEAD names feature after branches were created and switched, work was
\* committed on both, merged with a merge commit and exchanged with the remote.
SymbolicAfterEveryCall ==
    /\ head = Symbolic("feature")
    /\ refs["master"] # NoOid /\ refs["feature"] # refs["master"]
    /\ \E i \in 1..Len(commits) : Len(commits[i].parents) = 2
    /\ tracking["master"] # NoOid

\* What the second decision inside the three-way branch returns when it does
\* not go on to merge.
InnerReturns ==
    {"Already up-to-date", "Fast-forward merge", "Failed to fast-forward merge",
     "Fast-forward pull", "Failed to fast-forward pull"}

\* C35: whenever merge(b) or pull(origin, b) enters the three-way branch (the
\* merge base of HEAD's commit and the target differs from both), the merge
\* analysis consulted there is normal: the call returns none of the inner
\* up-to-date and fast-forward results and leaves a symbolic HEAD as it was.
InnerAnalysisIsNormal ==
    /\ \A b \in Names, m \in Messages, io \in IoFailures :
           Diverged(b) =>
               /\ merge_analysis(Cur, refs[b]) = "normal"
               /\ merge(Cur, b, m, io).res.msg \notin InnerReturns
               /\ head.sym => merge(Cur, b, m, io).repo.head = head
    /\ \A b \in RemoteBranches, io \in IoFailures :
           PullWouldCommit(b) =>
               /\ merge_analysis(fetch(Cur, "origin", b, "none").repo, remote[b]) = "normal"
               /\ pull(Cur, "origin", b, io).res.msg \notin InnerReturns
               /\ head.sym => pull(Cur, "origin", b, io).repo.head = head

\* HEAD's commit has diverged both from feature and from the remote's
\* master, and merge and pull go through the three-way branch to the merge
\* itself.
ThreeWayBranchEntered ==
    /\ Configured /\ Unmodified
    /\ Diverged("feature") /\ PullWouldCommit("master")
    /\ merge(Cur, "feature", NoMessage, "none").res.msg
           \in {"Merge commit created", "Merge conflicts detected"}
    /\ pull(Cur, "origin", "master", "none").res.msg
           \in {"Pull merge commit created", "Merge conflicts detected during pull"}

\* Every branch of r still exists in out's repository and its tip there has
\* its tip in r as ancestor or is that tip.
MovedForward(r, out) ==
    \A n \in Branches :
        r.refs[n] # NoOid =>
            /\ out.repo.refs[n] # NoOid
            /\ r.refs[n] \in Ancestors(out.repo.commits, out.repo.refs[n])

\* C36: commit, merge and pull, successful or not, leave every branch, the
\* current one included, at a commit that has the branch's previous tip as
\* ancestor or is that tip, and keep every stored commit as it was: no
\* commit reachable from a branch stops being reachable from it.
BranchesOnlyMoveForward ==
    \A b \in Names, m \in Messages, io \in IoFailures :
        /\ MovedForward(Cur, commit(Cur, UserMessage, io))
        /\ MovedForward(Cur, merge(Cur, b, m, io))
        /\ MovedForward(Cur, pull(Cur, "origin", b, io))
        /\ MovedForward(Cur, pull(Cur, "origin", NoBranch, io))
        /\ \A out \in {commit(Cur, UserMessage, io), merge(Cur, b, m, io),
                        pull(Cur, "origin", b, io)} :
               SubSeq(out.repo.commits, 1, Len(commits)) = commits

\* On a branch behind the remote's master by a fast-forward and diverged
\* from another branch: pull and merge each move the current branch to a new
\* tip, and so does the commit of an edit.
BranchMovedThreeWays ==
    /\ Configured /\ Unmodified /\ head.sym
    /\ \E b \in Names :
           /\ Diverged(b)
           /\ merge(Cur, b, NoMessage, "none").res.msg = "Merge commit created"
           /\ merge(Cur, b, NoMessage, "none").repo.refs[head.name] = Len(commits) + 1
    /\ pull(Cur, "origin", "master", "none").res.msg = "Fast-forward pull"
    /\ pull(Cur, "origin", "master", "none").repo.refs[head.name] # refs[head.name]
    /\ \E c \in Contents :
           /\ workdir["a"] # c
           /\ commit(add([Cur EXCEPT !.workdir["a"] = c], "a").repo,
                     UserMessage, "none").res.ok

\* The outcome out wrote no branch reference other than that of the branch
\* HEAD names; none at all when HEAD names no branch.
OnlyCurrentBranchWritten(out) ==
    \A n \in Branches :
        n # get_current_branch(Cur) => out.repo.refs[n] = refs[n]

\* C37: commit, merge(b) and pull(origin, b) or pull(origin, None), successful
\* or not, leave every local branch reference other than that of the branch
\* HEAD names as it was: the merge target b and, for a pull of a branch
\* other than the current one, the local branch b included.
OtherBranchesUntouched ==
    \A b \in Names, m \in Messages, io \in IoFailures :
        /\ OnlyCurrentBranchWritten(commit(Cur, UserMessage, io))
        /\ OnlyCurrentBranchWritten(merge(Cur, b, m, io))
        /\ OnlyCurrentBranchWritten(pull(Cur, "origin", b, io))
        /\ OnlyCurrentBranchWritten(pull(Cur, "origin", NoBranch, io))

\* On feature, with the remote's master ahead of the local master: pull of
\* master fast-forwards feature and leaves the local master behind.
PullOfOtherBranch ==
    /\ head = Symbolic("feature")
    /\ refs["master"] # NoOid
    /\ remote["master"] # refs["master"]
    /\ pull(Cur, "origin", "master", "none").res.msg = "Fast-forward pull"
    /\ pull(Cur, "origin", "master", "none").repo.refs["feature"] = remote["master"]
    /\ pull(Cur, "origin", "master", "none").repo.refs["master"] = refs["master"]

\* The commits reachable from some local branch of r.
OnSomeBranch(r) ==
    UNION {Ancestors(r.commits, r.refs[n]) : n \in {b \in Branches : r.refs[b] # NoOid}}

\* C38: prune_merged_branches, dry run or not, keeps main and master where
\* they are, deletes only branches whose tip is reachable from the main
\* line's tip, and leaves every commit that was reachable from a local branch
\* reachable from a remaining one.
PruneKeepsHistory ==
    \A dry_run \in BOOLEAN :
        LET out == prune_merged_branches(Cur, dry_run)
        IN /\ out.repo.commits = commits
           /\ out.repo.refs["main"] = refs["main"]
           /\ out.repo.refs["master"] = refs["master"]
           /\ \A b \in Deleted(out.repo) :
                  /\ refs[MainLine] # NoOid
                  /\ refs[b] \in Ancestors(commits, refs[MainLine])
           /\ OnSomeBranch(Cur) \subseteq OnSomeBranch(out.repo)

\* A prune deletes a branch that is behind the main line while a branch with
\* work that the main line does not have is kept.
PruneDeletesBehindBranch ==
    \E b, k \in Branches :
        /\ b \in Deleted(prune_merged_branches(Cur, FALSE).repo)
        /\ refs[b] # refs[MainLine]
        /\ AheadOfMainLine(k)
        /\ prune_merged_branches(Cur, FALSE).repo.refs[k] = refs[k]

\* C39: without user.name or user.email, merge(b) fails on the missing
\* identity and changes nothing for every b, existing or not, merged, ahead
\* or diverged; pull fails on the missing identity only when it has a merge
\* commit to author, and not when the fetched branch is contained in HEAD's
\* history or fast-forwards it.
MergeAsksIdentityFirst ==
    IdentityMissing =>
        /\ \A b \in Branches, m \in Messages, io \in IoFailures :
               /\ MissingIdentity(merge(Cur, b, m, io).res)
               /\ merge(Cur, b, m, io).repo = Cur
        /\ \A b \in RemoteBranches :
               MissingIdentity(pull(Cur, "origin", b, "none").res) <=> PullWouldCommit(b)

\* Without an identity, on a branch that master is ahead of and that the
\* remote's master fast-forwards: merge(master) is refused for the identity
\* and pull of master fast-forwards.
MergeRefusedPullFastForwards ==
    /\ IdentityMissing
    /\ Descendant("master")
    /\ MissingIdentity(merge(Cur, "master", NoMessage, "none").res)
    /\ pull(Cur, "origin", "master", "none").res.ok
    /\ pull(Cur, "origin", "master", "none").res.msg = "Fast-forward pull"

====
